---- MODULE Spec2Model ----
(***************************************************************************)
(* Model of the ComfyEndpoints in-pod runtime: the gateway's request       *)
(* handlers (gateway/server.py), the per-job executor thread               *)
(* (GatewayHandler._execute_job / _resolve_contract_outputs) and the       *)
(* JobStore (gateway/job_store.py: jobs table, files table, blobs,         *)
(* per-job artifact directory).                                            *)
(***************************************************************************)
EXTENDS Integers, Sequences, FiniteSets, TLC

\* ------------------------------------------------------------------ bounds
MaxJobs == 1          \* jobs created by JobStore.create in one behaviour
TimeoutTicks == 2     \* output deadline, counted in poll sleeps
MaxFiles == 2         \* create_file calls in one behaviour
MaxContentLen == 1    \* longest file content, in bytes
MaxInputs == 2        \* longest contract input list validate_payload is tried on
MaxRows == 3          \* rows of the files table when a list_files walk starts
MaxInserts == 1       \* rows inserted while a list_files walk is under way
MaxOutputs == 2       \* entries of the outputs map given to write_output_artifacts

JobIds == 1..MaxJobs
FileIds == 1..MaxFiles

\* ------------------------------------------------------- optional values
\* Python's None is the empty sequence, a present value v is <<v>>.
None == <<>>
Some(v) == <<v>>

\* --------------------------------------------------------------- contract
\* The WorkflowApiContractV1 the gateway loaded (GatewayApp.__init__).
ContractInputs ==
  << [name |-> "prompt",     required |-> TRUE,  type |-> "string"],
     [name |-> "seed",       required |-> FALSE, type |-> "integer"],
     [name |-> "init_image", required |-> FALSE, type |-> "image/png"] >>

ContractOutputs ==
  << [name |-> "image",   type |-> "image/png"],
     [name |-> "caption", type |-> "string"] >>

RECURSIVE SeqRange(_)
SeqRange(s) == IF s = <<>> THEN {} ELSE {Head(s)} \cup SeqRange(Tail(s))

expected_output_names == [i \in 1..Len(ContractOutputs) |-> ContractOutputs[i].name]
OutputNames == SeqRange(expected_output_names)

\* ------------------------------------------------------------- job store
Terminal == {"completed", "failed", "canceled"}

\* A row of the jobs table; state "none" stands for "no row with this id".
NoJob == [state |-> "none", input_payload |-> {}, output_payload |-> None, error |-> None]

\* JobStore.create: INSERT a queued row.
create(js, j, payload) ==
  [js EXCEPT ![j] = [state |-> "queued", input_payload |-> payload,
                     output_payload |-> None, error |-> None]]

\* mark_running that never writes the state (the UPDATE is lost)
mark_running_lost(js, j) == js

\* UPDATE ... WHERE job_id = ? touches the row only if it exists.
mark_running(js, j) ==
  IF js[j].state = "none" THEN js
  ELSE [js EXCEPT ![j].state = "running"]

mark_completed(js, j, output_payload) ==
  IF js[j].state = "none" THEN js
  ELSE [js EXCEPT ![j].state = "completed", ![j].output_payload = Some(output_payload)]

mark_failed(js, j, error) ==
  IF js[j].state = "none" THEN js
  ELSE [js EXCEPT ![j].state = "failed", ![j].error = Some(error)]

\* ------------------------------------------------------ artifact directory
\* <artifacts>/<job_id>/<name> holds the text an ApiOutput node wrote.
Absent == "<absent>"
RawTexts == {"fid_a", ""}

NoArtifacts == [n \in OutputNames |-> Absent]

\* Values after json.loads: a tag and the literal.
StrVal(s) == [t |-> "str", v |-> s]
IntVal(s) == [t |-> "int", v |-> s]

\* Values that are not strings; v is the text json.dumps gives them.
JsonValues ==
  {IntVal("1"), [t |-> "float", v |-> "1.25"], [t |-> "bool", v |-> "true"],
   [t |-> "object", v |-> "{}"], [t |-> "array", v |-> "[]"]}

\* json.dumps(value) of a value that is not a string
json_dumps(value) == value.v

\* a reader that never parses: every file comes back as its raw text
JsonLoadsRawOnly(text) == StrVal(text)

\* json.loads(raw_value), falling back to the raw string on JSONDecodeError.
JsonLoadsOrRaw(text) ==
  IF \E value \in JsonValues : json_dumps(value) = text
  THEN CHOOSE value \in JsonValues : json_dumps(value) = text
  ELSE StrVal(text)

\* JobStore._sanitize_artifact_name: Path(output_name).name.strip()
sanitize_artifact_name(output_name) ==
  IF output_name = "sub/image" THEN "image" ELSE output_name

\* What write_output_artifacts writes for one value: a string verbatim, any
\* other value as json.dumps(value).
artifact_text(value) == IF value.t = "str" THEN value.v ELSE json_dumps(value)

\* JobStore.write_output_artifacts: "for output_name, value in outputs.items()",
\* outputs given as the sequence of its items.
RECURSIVE write_output_artifacts(_, _)
write_output_artifacts(dir, outputs) ==
  IF outputs = <<>> THEN dir
  ELSE write_output_artifacts(
         [dir EXCEPT ![sanitize_artifact_name(Head(outputs).name)] = artifact_text(Head(outputs).value)],
         Tail(outputs))

\* JobStore.read_output_artifacts: every regular file of the job's directory.
read_output_artifacts(dir) ==
  [n \in {m \in DOMAIN dir : dir[m] # Absent} |-> JsonLoadsOrRaw(dir[n])]

\* ------------------------------------------------------ output resolution
\* The type names of the model that start with one of MEDIA_PREFIXES
\* ("image/", "video/", "audio/", "file/").
MediaTypes == {"image/png", "video/mp4", "audio/wav", "file/bin"}
is_media_contract_type(type_name) == type_name \in MediaTypes

Strip(s) == s    \* no text of RawTexts has surrounding whitespace

Err(prefix, detail, names) == [prefix |-> prefix, detail |-> detail, names |-> names]

\* Strings json.loads or the raw fallback can hand to the coercion, and the
\* other values besides JsonValues: JSON null.
NullVal == [t |-> "null", v |-> "null"]
IntegerTexts == {"12"}                       \* int(s) and float(s) accept
DecimalTexts == {"1.5"}                      \* float(s) accepts, int(s) raises ValueError
TrueTexts  == {"1", "true", "yes", "on"}
FalseTexts == {"0", "false", "no", "off"}

\* what a conversion returns or raises: exc is the exception class, "" for none
Returned(value) == [ok |-> TRUE, value |-> value, error |-> None, exc |-> ""]
Raised(exc, raw_value, error) == [ok |-> FALSE, value |-> raw_value, error |-> Some(error), exc |-> exc]

\* int(raw_value)
int_of(raw_value) ==
  CASE raw_value.t = "int"   -> Returned(raw_value)
    [] raw_value.t = "float" -> Returned(IntVal("1"))      \* int(1.25) = 1
    [] raw_value.t = "str"   -> IF raw_value.v \in IntegerTexts \cup {"1", "0"}
                                THEN Returned(IntVal(raw_value.v))
                                ELSE Raised("ValueError", raw_value, Err("ValueError", "invalid literal for int()", <<>>))
    [] OTHER                 -> Raised("TypeError", raw_value, Err("TypeError", "int() argument", <<>>))

\* float(raw_value)
float_of(raw_value) ==
  CASE raw_value.t = "int"   -> Returned([t |-> "float", v |-> raw_value.v])
    [] raw_value.t = "float" -> Returned(raw_value)
    [] raw_value.t = "str"   -> IF raw_value.v \in IntegerTexts \cup DecimalTexts \cup {"1", "0"}
                                THEN Returned([t |-> "float", v |-> raw_value.v])
                                ELSE Raised("ValueError", raw_value, Err("ValueError", "could not convert string to float", <<>>))
    [] OTHER                 -> Raised("TypeError", raw_value, Err("TypeError", "float() argument", <<>>))

OutputTypeError(detail, raw_value, names) ==
  Raised("OutputResolutionError", raw_value, Err("OUTPUT_TYPE_ERROR", detail, names))

\* _coerce_scalar_output: the branches in the order of the code; int() and
\* float() are called bare, so what they raise leaves the function as it is.
coerce_scalar_output(type_name, raw_value) ==
  CASE type_name = "string"  -> Returned(StrVal(raw_value.v))      \* str(raw_value)
    [] type_name = "integer" ->
         IF raw_value.t = "bool" THEN OutputTypeError("cannot_coerce_bool_to_integer", raw_value, <<>>)
         ELSE int_of(raw_value)
    [] type_name = "number" ->
         IF raw_value.t = "bool" THEN OutputTypeError("cannot_coerce_bool_to_number", raw_value, <<>>)
         ELSE float_of(raw_value)
    [] type_name = "boolean" ->
         IF raw_value.t = "bool" THEN Returned(raw_value)
         ELSE IF raw_value.t = "str" /\ raw_value.v \in TrueTexts THEN Returned([t |-> "bool", v |-> "true"])
         ELSE IF raw_value.t = "str" /\ raw_value.v \in FalseTexts THEN Returned([t |-> "bool", v |-> "false"])
         ELSE IF raw_value.t \in {"int", "float"}
              THEN Returned([t |-> "bool", v |-> IF raw_value.v = "0" THEN "false" ELSE "true"])
         ELSE OutputTypeError("cannot_coerce_to_boolean", raw_value, <<>>)
    [] type_name = "object" ->
         IF raw_value.t = "object" THEN Returned(raw_value)
         ELSE OutputTypeError("expected_object", raw_value, <<>>)
    [] type_name = "array" ->
         IF raw_value.t = "array" THEN Returned(raw_value)
         ELSE OutputTypeError("expected_array", raw_value, <<>>)
    [] OTHER -> OutputTypeError("unsupported_type", raw_value, <<type_name>>)

\* One iteration of the "for field in self.app.contract.outputs" loop.
resolve_field(field, raw_value) ==
  IF is_media_contract_type(field.type)
  THEN IF raw_value.t # "str" \/ Strip(raw_value.v) = ""
       THEN OutputTypeError("media_output_must_be_file_id", raw_value, <<field.name>>)
       ELSE Returned(StrVal(Strip(raw_value.v)))
  ELSE coerce_scalar_output(field.type, raw_value)

\* The first field whose conversion raises, 0 when none does.
RECURSIVE first_failing_field(_, _)
first_failing_field(i, artifacts) ==
  IF i > Len(ContractOutputs) THEN 0
  ELSE IF ~resolve_field(ContractOutputs[i], artifacts[ContractOutputs[i].name]).ok THEN i
  ELSE first_failing_field(i + 1, artifacts)

\* missing = [name for name in expected_output_names if name not in artifacts]
missing_names(artifacts) == {n \in OutputNames : n \notin DOMAIN artifacts}

\* ----------------------------------------------------------- prompt mapper
\* gateway/prompt_mapper.py. A node is {"class_type": .., "inputs": ..}; inputs
\* is a dict (is_dict, its slots) or something else (absent, null, a list).
Dict(slots) == [is_dict |-> TRUE, slots |-> slots]
NotADict == [is_dict |-> FALSE, slots |-> <<>>]

\* node_inputs[key] = value
Put(slots, key, value) ==
  [k \in DOMAIN slots \cup {key} |-> IF k = key THEN value ELSE slots[k]]

\* node_inputs.setdefault(key, value)
SetDefault(slots, key, value) ==
  IF key \in DOMAIN slots THEN slots ELSE Put(slots, key, value)

BoolVal(s) == [t |-> "bool", v |-> s]
FloatVal(s) == [t |-> "float", v |-> s]

\* class_type.strip().lower() for the class names of the model
normalized_class(class_type) ==
  IF class_type \in {"ApiInput", "apiinput"} THEN "apiinput"
  ELSE IF class_type \in {"ApiOutput", " APIOUTPUT "} THEN "apioutput"
  ELSE class_type

\* _inputs_from_widgets for a node whose widgets_values list is complete
\* (["prompt", "string", True, ""] / ["image", "image/png", ""])
inputs_from_widgets(class_type) ==
  IF normalized_class(class_type) = "apiinput"
  THEN [k \in {"name", "type", "required", "value"} |->
          IF k = "name" THEN StrVal("prompt") ELSE IF k = "type" THEN StrVal("string")
          ELSE IF k = "required" THEN BoolVal("true") ELSE StrVal("")]
  ELSE IF normalized_class(class_type) = "apioutput"
  THEN [k \in {"name", "type", "value"} |->
          IF k = "name" THEN StrVal("image") ELSE IF k = "type" THEN StrVal("image/png")
          ELSE StrVal("")]
  ELSE <<>>

RECURSIVE merge_defaults(_, _, _)
merge_defaults(slots, from_widgets, keys) ==
  IF keys = {} THEN slots
  ELSE LET k == CHOOSE x \in keys : TRUE
       IN  merge_defaults(SetDefault(slots, k, from_widgets[k]), from_widgets, keys \ {k})

\* _prompt_from_nodes: inputs that are no dict become {}, widget values fill
\* the slots that are not set.
prompt_from_nodes(nodes) ==
  [id \in DOMAIN nodes |->
     LET node_inputs == IF nodes[id].inputs.is_dict THEN nodes[id].inputs.slots ELSE <<>>
         from_widgets == inputs_from_widgets(nodes[id].class_type)
     IN  [class_type |-> nodes[id].class_type,
          inputs |-> Dict(merge_defaults(node_inputs, from_widgets, DOMAIN from_widgets))]]

\* What _prompt_from_nodes leaves in the workflow it was given: node_inputs
\* is node.get("inputs") itself when that is a dict, so setdefault writes the
\* widget values into the workflow's own node.
workflow_after_parse(workflow_payload) ==
  IF workflow_payload.shape # "nodes" THEN workflow_payload
  ELSE [workflow_payload EXCEPT !.graph =
          [id \in DOMAIN workflow_payload.graph |->
             LET node == workflow_payload.graph[id]
                 from_widgets == inputs_from_widgets(node.class_type)
             IN  IF ~node.inputs.is_dict THEN node
                 ELSE [node EXCEPT !.inputs.slots =
                         merge_defaults(node.inputs.slots, from_widgets, DOMAIN from_widgets)]]]

\* parse_prompt_template: {"prompt": graph}, {"nodes": [...]}, a top-level
\* graph, or anything else (PromptMappingError).
parse_prompt_template(workflow_payload) ==
  IF workflow_payload.shape = "prompt" THEN [ok |-> TRUE, prompt |-> workflow_payload.graph]
  ELSE IF workflow_payload.shape = "nodes"
  THEN [ok |-> TRUE, prompt |-> prompt_from_nodes(workflow_payload.graph)]
  ELSE IF workflow_payload.shape = "flat" THEN [ok |-> TRUE, prompt |-> workflow_payload.graph]
  ELSE [ok |-> FALSE, prompt |-> <<>>]

\* _default_value(field_type)
default_value(field_type) ==
  IF field_type \in {"string", "text", "str"} THEN StrVal("")
  ELSE IF field_type \in {"int", "integer", "number"} THEN IntVal("0")
  ELSE IF field_type \in {"float", "double"} THEN FloatVal("0.0")
  ELSE IF field_type \in {"bool", "boolean"} THEN BoolVal("false")
  ELSE StrVal("")

\* a key choice that prefers "value" to the field's own name
resolve_input_key_value_first(node_inputs, preferred_name) ==
  IF "value" \in DOMAIN node_inputs THEN "value"
  ELSE IF preferred_name \in DOMAIN node_inputs THEN preferred_name
  ELSE IF Cardinality(DOMAIN node_inputs) = 1 THEN CHOOSE k \in DOMAIN node_inputs : TRUE
  ELSE preferred_name

\* _resolve_input_key(node_inputs, preferred_name)
resolve_input_key(node_inputs, preferred_name) ==
  IF preferred_name \in DOMAIN node_inputs THEN preferred_name
  ELSE IF "value" \in DOMAIN node_inputs THEN "value"
  ELSE IF Cardinality(DOMAIN node_inputs) = 1 THEN CHOOSE k \in DOMAIN node_inputs : TRUE
  ELSE preferred_name

MapError(code, subject) == [ok |-> FALSE, prompt |-> <<>>, error |-> <<code, subject>>]

\* "for field in contract.inputs", from field i on
RECURSIVE bind_inputs(_, _, _, _)
bind_inputs(prompt, inputs, i, input_payload) ==
  IF i > Len(inputs) THEN [ok |-> TRUE, prompt |-> prompt, error |-> <<>>]
  ELSE LET field == inputs[i] IN
    IF field.required /\ field.name \notin DOMAIN input_payload
    THEN MapError("missing_required_input", field.name)
    ELSE IF field.node_id \notin DOMAIN prompt
    THEN MapError("missing_contract_node", field.node_id)
    ELSE IF ~prompt[field.node_id].inputs.is_dict
    THEN MapError("invalid_contract_node_inputs", field.node_id)
    ELSE LET node_inputs == prompt[field.node_id].inputs.slots
             key == resolve_input_key(node_inputs, field.name)
         IN  IF field.name \in DOMAIN input_payload
             THEN bind_inputs([prompt EXCEPT ![field.node_id].inputs.slots =
                                 Put(node_inputs, key, input_payload[field.name])],
                              inputs, i + 1, input_payload)
             ELSE bind_inputs(prompt, inputs, i + 1, input_payload)

\* os.getenv defaults of the two paths
artifacts_dir == StrVal("/opt/comfy_endpoints/runtime/artifacts")
state_db_path == StrVal("/opt/comfy_endpoints/runtime/jobs.db")

\* an annotation pass that writes ce_job_id only
annotate_job_id_only(node, job_id) ==
  IF normalized_class(node.class_type) # "apioutput" \/ ~node.inputs.is_dict THEN node
  ELSE [node EXCEPT !.inputs.slots =
          Put(node.inputs.slots, "ce_job_id", IF job_id = None THEN StrVal("") ELSE StrVal(job_id[1]))]

\* "for node in prompt.values()": the three ce_ slots of an ApiOutput node
annotate(node, job_id) ==
  IF normalized_class(node.class_type) # "apioutput" \/ ~node.inputs.is_dict THEN node
  ELSE [node EXCEPT !.inputs.slots =
          Put(Put(Put(node.inputs.slots,
                      "ce_job_id", IF job_id = None THEN StrVal("") ELSE StrVal(job_id[1])),
                  "ce_artifacts_dir", artifacts_dir),
              "ce_state_db", state_db_path)]

map_contract_payload_to_prompt(workflow_payload, inputs, input_payload, job_id) ==
  LET parsed == parse_prompt_template(workflow_payload) IN
    IF ~parsed.ok THEN MapError("no_prompt_template", "")
    ELSE LET bound == bind_inputs(parsed.prompt, inputs, 1, input_payload) IN
      IF ~bound.ok THEN bound
      ELSE [ok |-> TRUE,
            prompt |-> [id \in DOMAIN bound.prompt |-> annotate(bound.prompt[id], job_id)],
            error |-> <<>>]

\* build_preflight_payload: defaults[field.name] = _default_value(field.type)
RECURSIVE preflight_defaults(_, _, _)
preflight_defaults(defaults, inputs, i) ==
  IF i > Len(inputs) THEN defaults
  ELSE preflight_defaults(Put(defaults, inputs[i].name, default_value(inputs[i].type)),
                          inputs, i + 1)

build_preflight_payload(workflow_payload, inputs) ==
  map_contract_payload_to_prompt(workflow_payload, inputs,
                                 preflight_defaults(<<>>, inputs, 1), None)

\* ------------------------------------------------------ request validation
RECURSIVE first_missing_required(_, _)
first_missing_required(inputs, payload) ==
  IF inputs = <<>> THEN None
  ELSE IF Head(inputs).required /\ Head(inputs).name \notin payload
       THEN Some(Head(inputs).name)
       ELSE first_missing_required(Tail(inputs), payload)

\* validate_payload whose "names" holds the required fields only
validate_payload_required_only(inputs, payload) ==
  LET names   == {inputs[i].name : i \in {k \in 1..Len(inputs) : inputs[k].required}}
      missing == first_missing_required(inputs, payload)
      extra   == payload \ names
  IN  IF missing # None
      THEN [ok |-> FALSE, detail |-> "missing_required_input", names |-> {missing[1]}]
      ELSE IF extra # {}
           THEN [ok |-> FALSE, detail |-> "unexpected_inputs", names |-> extra]
           ELSE [ok |-> TRUE, detail |-> "ok", names |-> {}]

\* GatewayApp.validate_payload; a payload is the set of its keys.
validate_payload(inputs, payload) ==
  LET names   == {inputs[i].name : i \in 1..Len(inputs)}
      missing == first_missing_required(inputs, payload)
      extra   == payload \ names
  IN  IF missing # None
      THEN [ok |-> FALSE, detail |-> "missing_required_input", names |-> {missing[1]}]
      ELSE IF extra # {}
           THEN [ok |-> FALSE, detail |-> "unexpected_inputs", names |-> extra]
           ELSE [ok |-> TRUE, detail |-> "ok", names |-> {}]

\* validate_payload called with what json.loads returned. A body is a record:
\* kind is the JSON type; keys holds the keys of an object, the elements of an
\* array, or the field names that occur inside a string.
\*  - "name not in payload" raises TypeError for a number, a boolean and null,
\*    tests membership in an array and containment in a string;
\*  - payload.keys() raises AttributeError for anything but an object.
validate_json(inputs, body) ==
  LET required == {i \in 1..Len(inputs) : inputs[i].required}
      v == validate_payload(inputs, body.keys)
  IN  IF body.kind = "object"
      THEN [ok |-> v.ok, detail |-> v.detail, names |-> v.names, raised |-> ""]
      ELSE IF body.kind \in {"number", "boolean", "null"} /\ required # {}
      THEN [ok |-> FALSE, detail |-> "", names |-> {}, raised |-> "TypeError"]
      ELSE IF body.kind \in {"array", "string"} /\ first_missing_required(inputs, body.keys) # None
      THEN [ok |-> FALSE, detail |-> "missing_required_input",
            names |-> {first_missing_required(inputs, body.keys)[1]}, raised |-> ""]
      ELSE [ok |-> FALSE, detail |-> "", names |-> {}, raised |-> "AttributeError"]

\* is_authorized(provided_key, expected_key)
is_authorized(provided_key, expected_key) ==
  provided_key # "" /\ provided_key = expected_key

api_key == "secret"
Keys == {"", "secret", "wrong"}

\* ------------------------------------------------------------------ state
VARIABLES
  jobs,          \* jobs table: job id -> JobRecord row
  pc,            \* position of the worker thread running _execute_job(job)
  remaining,     \* poll ticks left until the job's output deadline
  artdir,        \* artifact directory: job id -> output name -> file text
  snapshot,      \* the executor's local "artifacts" of its last poll
  submitted,     \* job ids whose graph the engine received (queue_prompt)
  hist,          \* every state written to the job's row, in order
  cancelPosted,  \* an authorised cancel request arrived while the job ran
  cancelSeen,    \* the executor polled after such a request
  raised,        \* the exception class _execute_job caught for the job, if any
  refs,          \* the value the job's payload gives the media input init_image
  engine,        \* ticks since the engine's history reported the job's prompt finished
  resp,          \* the last request and the response it got
  files,         \* files table, in insertion order
  blobs,         \* files directory: file id -> content of <file_id><ext>
  upl,           \* the create_file calls: position, content, row id read back
  vp_inputs, vp_payload, vp_result,  \* one validate_payload call (SpecValidate)
  rd,            \* a reader thread: the FileRecord it obtained, the bytes it read
  walk,          \* a client walking GET /files page by page
  rt,            \* a write_output_artifacts call and the read_output_artifacts after it
  mp,            \* a map_contract_payload_to_prompt / build_preflight_payload call
  oc,            \* one output field resolved by _resolve_contract_outputs in _execute_job
  sv,            \* one run of the supervisor (run_bootstrap) and its two children
  cc,            \* one catalog call of ComfyClient and the engine's answer to each path
  mr,            \* the engine's and the cache's model directories around _ensure_model_roots_on_cache
  dl             \* one model file fetched by _download_file: the target path and its .part file

jobVars  == <<jobs, pc, remaining, artdir, snapshot, submitted, hist, cancelPosted, cancelSeen, raised,
             refs, engine>>
fileVars == <<files, blobs, upl>>
vpVars   == <<vp_inputs, vp_payload, vp_result>>
sideVars == <<oc, sv, cc, mr, dl>>
libVars  == <<rd, walk, rt, mp, sideVars>>
notRd    == <<walk, rt, mp, sideVars>>
notWalk  == <<rd, rt, mp, sideVars>>
notRt    == <<rd, walk, mp, sideVars>>
notMp    == <<rd, walk, rt, sideVars>>
notOc    == <<rd, walk, rt, mp, sv, cc, mr, dl>>
notSv    == <<rd, walk, rt, mp, oc, cc, mr, dl>>
notCc    == <<rd, walk, rt, mp, oc, sv, mr, dl>>
notMr    == <<rd, walk, rt, mp, oc, sv, cc, dl>>
notDl    == <<rd, walk, rt, mp, oc, sv, cc, mr>>
vars     == <<jobs, pc, remaining, artdir, snapshot, submitted, hist, cancelPosted,
              cancelSeen, raised, refs, engine, resp, files, blobs, upl, vp_inputs, vp_payload, vp_result,
              rd, walk, rt, mp, oc, sv, cc, mr, dl>>

\* ------------------------------------------------------- requests, responses
\* The value a payload gives the media input init_image: the file id of
\* FileIds ("fid_<n>", stored or not), a string that does not start with fid_,
\* or nothing when the payload has no such key.
NoRef == 0 - 1
PlainRef == 0
MediaRefs == FileIds \cup {PlainRef}
starts_with_fid(value) == value \in FileIds

NoBody == [kind |-> "none", keys |-> {}, ref |-> NoRef]
PayloadKeys == {"prompt", "seed", "extra"}
ObjectBodies == {[kind |-> "object", keys |-> K, ref |-> NoRef] : K \in SUBSET PayloadKeys}
\* bodies that give init_image a value
MediaBodies == {[kind |-> "object", keys |-> {"prompt", "init_image"}, ref |-> r] : r \in MediaRefs}
\* bad_json: text json.loads rejects; bad_utf8: bytes bytes.decode("utf-8") rejects
\* valid JSON that is not an object
NonObjectKinds == {"array", "string", "number", "boolean", "null"}
NonObjectBodies ==
  {[kind |-> k, keys |-> {}, ref |-> NoRef] : k \in NonObjectKinds}
  \cup {[kind |-> k, keys |-> {"prompt"}, ref |-> NoRef] : k \in {"array", "string"}}
Bodies == ObjectBodies \cup NonObjectBodies
            \cup {[kind |-> "bad_json", keys |-> {}, ref |-> NoRef],
                  [kind |-> "bad_utf8", keys |-> {}, ref |-> NoRef]}

\* status 0: the handler raised and the connection closed without a response
Response(route, authorized, body, id, status, error, detail, names) ==
  [route |-> route, authorized |-> authorized, body |-> body, id |-> id,
   status |-> status, error |-> error, detail |-> detail, names |-> names,
   output |-> None]

NoResponse == Response("none", FALSE, NoBody, 0, 0, "", "", {})

Unauthorized(route, id) == Response(route, FALSE, NoBody, id, 401, "unauthorized", "", {})

FreeJobIds == {j \in JobIds : jobs[j].state = "none"}
\* uuid.uuid4().hex: an id no row has yet
NewJobId == CHOOSE j \in FreeJobIds : \A k \in FreeJobIds : j <= k

\* -------------------------------------------------------------- file store
Bytes == {0, 1}
Contents == UNION {[1..n -> Bytes] : n \in 0..MaxContentLen}

NoBlob == <<-1>>     \* no file at this path

\* hashlib.sha256(content).hexdigest(): distinct contents, distinct digests
RECURSIVE sha256(_)
sha256(content) ==
  IF content = <<>> THEN 1
  ELSE 3 * sha256(SubSeq(content, 1, Len(content) - 1)) + content[Len(content)] + 1

\* The create_file call c draws file_id "fid_<uuid4>"; the model names it c.
IdleCall == [pc |-> "idle", content |-> <<>>, media_type |-> "", source |-> "",
             app_id |-> "", row_id |-> 0]

\* content_media_type = (media_type or "").strip() or "application/octet-stream"
content_media_type(media_type) ==
  IF media_type = "" THEN "application/octet-stream" ELSE media_type

\* The row create_file inserts; id is the AUTOINCREMENT key (cursor_id).
\* app_id None is written "" (list_files treats both as "no filter").
file_row(table, file_id, content, media_type, source, app_id) ==
  [id |-> Len(table) + 1, file_id |-> file_id,
   media_type |-> content_media_type(media_type), size_bytes |-> Len(content),
   sha256_hex |-> sha256(content), source |-> source, app_id |-> app_id]

\* target_path.write_bytes(content)
write_blob(dir, file_id, content) == [dir EXCEPT ![file_id] = content]

\* INSERT INTO files
insert_file(table, file_id, content, media_type, source, app_id) ==
  Append(table, file_row(table, file_id, content, media_type, source, app_id))

\* SELECT last_insert_rowid() on the store's one shared connection
last_insert_rowid(table) == Len(table)

\* JobStore.get_file: the row with this file_id, or None
get_file(table, file_id) ==
  LET hits == {i \in 1..Len(table) : table[i].file_id = file_id}
  IN  IF hits = {} THEN None ELSE Some(table[CHOOSE i \in hits : TRUE])

\* JobStore.list_files ------------------------------------------------------
LimitCap == 200       \* effective_limit = max(1, min(limit, 200))
DefaultLimit == 50    \* list_files(limit: int = 50, ...)

\* a list_files without the upper clamp
effective_limit_uncapped(limit) == IF limit > 1 THEN limit ELSE 1

effective_limit(limit) ==
  LET capped == IF limit < LimitCap THEN limit ELSE LimitCap
  IN  IF capped > 1 THEN capped ELSE 1

\* The WHERE clause: "id < ?" when a cursor is given, one equality per filter
\* that is given ("" and None are both "not given").
\* a WHERE clause with "id <= ?"
matching_rows_inclusive(table, cursor, media_type, source, app_id) ==
  {i \in 1..Len(table) :
     /\ cursor # None => table[i].id <= cursor[1]
     /\ media_type # "" => table[i].media_type = media_type
     /\ source # "" => table[i].source = source
     /\ app_id # "" => table[i].app_id = app_id}

\* a WHERE clause that pages by position: the cursor only says "not the first page"
matching_rows_by_offset(table, cursor, media_type, source, app_id) ==
  LET hits == {i \in 1..Len(table) :
                 /\ media_type # "" => table[i].media_type = media_type
                 /\ source # "" => table[i].source = source
                 /\ app_id # "" => table[i].app_id = app_id}
  IN  IF cursor = None THEN hits
      ELSE {i \in hits : Cardinality({k \in hits : table[k].id > table[i].id}) >= 1}

matching_rows(table, cursor, media_type, source, app_id) ==
  {i \in 1..Len(table) :
     /\ cursor # None => table[i].id < cursor[1]
     /\ media_type # "" => table[i].media_type = media_type
     /\ source # "" => table[i].source = source
     /\ app_id # "" => table[i].app_id = app_id}

\* ORDER BY id DESC LIMIT n over the selected rows. The table is kept in key
\* order (id is the AUTOINCREMENT key), so descending id is reverse table order.
order_desc_limit(table, rows, n) ==
  LET selected == SelectSeq([i \in 1..Len(table) |-> i], LAMBDA i : i \in rows)
      m == IF n < Len(selected) THEN n ELSE Len(selected)
  IN  [p \in 1..m |-> table[selected[Len(selected) + 1 - p]]]

list_files(table, limit, cursor, media_type, source, app_id) ==
  LET eff == effective_limit(limit)
      rows == order_desc_limit(table, matching_rows(table, cursor, media_type, source, app_id),
                               eff + 1)
      has_more == Len(rows) > eff
      records == SubSeq(rows, 1, IF has_more THEN eff ELSE Len(rows))
  IN  [records |-> records,
       next_cursor |-> IF has_more /\ records # <<>>
                       THEN Some(records[Len(records)].id) ELSE None]

\* A reader thread before its request: no record, nothing read.
IdleReader == [pc |-> "idle", rec |-> None, exists |-> FALSE, data |-> NoBlob]

\* No mapper call made yet.
IdleMapper == [pc |-> "idle", workflow |-> [shape |-> "none", graph |-> <<>>],
               inputs |-> <<>>, payload |-> <<>>, job_id |-> None, preflight |-> FALSE,
               result |-> <<>>,
               \* self.app.workflow as it is in memory now, and the result of the
               \* call before the last one
               template |-> [shape |-> "none", graph |-> <<>>], earlier |-> <<>>]

\* No write_output_artifacts call made yet.
IdleRoundTrip == [pc |-> "idle", job |-> 0, outputs |-> <<>>, loaded |-> <<>>]

\* A client before its first GET /files.
IdleWalk == [pc |-> "idle", limit |-> 0, media_type |-> "", source |-> "", app_id |-> "",
             cursor |-> None, sent |-> None, pages |-> <<>>, next_cursor |-> None,
             start |-> {}, inserted |-> {}]

FreeCalls == {c \in FileIds : upl[c].pc = "idle"}
NewCall == CHOOSE c \in FreeCalls : \A d \in FreeCalls : c <= d

\* ------------------------------------------------------- the store's lock
\* JobStore._lock is taken and released inside _execute, _fetchone, _fetchall
\* and _commit, each around one sqlite call, and _execute_job runs on a thread
\* of its own: at none of the positions between an executor's steps is the
\* lock held. A handler that reaches the store waits for the lock.
\* an executor that stays inside "with self._lock" during time.sleep
StoreLockHeldAtSleep == {"sleep"}

StoreLockHeldAt == {}

store_lock_free == \A j \in JobIds : pc[j] \notin StoreLockHeldAt

\* ------------------------------------------------- request handlers: do_GET
\* GET /healthz: answered before any key check.
GetHealthz(key) ==
  /\ resp' = Response("GET /healthz", is_authorized(key, api_key), NoBody, 0, 200, "", "ok", {})
  /\ UNCHANGED <<jobVars, fileVars, vpVars, libVars>>

\* GET /contract
GetContract(key) ==
  /\ resp' = IF ~is_authorized(key, api_key) THEN Unauthorized("GET /contract", 0)
             ELSE Response("GET /contract", TRUE, NoBody, 0, 200, "", "", {})
  /\ UNCHANGED <<jobVars, fileVars, vpVars, libVars>>

\* GET /files
GetFiles(key) ==
  /\ resp' = IF ~is_authorized(key, api_key) THEN Unauthorized("GET /files", 0)
             ELSE Response("GET /files", TRUE, NoBody, 0, 200, "", "", {})
  /\ UNCHANGED <<jobVars, fileVars, vpVars, libVars>>

\* GET /files/<file_id>
GetFile(key, f) ==
  /\ is_authorized(key, api_key) => store_lock_free
  /\ resp' = IF ~is_authorized(key, api_key) THEN Unauthorized("GET /files/<id>", f)
             ELSE IF get_file(files, f) = None
                  THEN Response("GET /files/<id>", TRUE, NoBody, f, 404, "file_not_found", "", {})
                  ELSE Response("GET /files/<id>", TRUE, NoBody, f, 200, "", "", {})
  /\ UNCHANGED <<jobVars, fileVars, vpVars, libVars>>

\* GET /files/<file_id>/download
GetFileDownload(key, f) ==
  /\ is_authorized(key, api_key) => store_lock_free
  /\ resp' = IF ~is_authorized(key, api_key) THEN Unauthorized("GET /files/<id>/download", f)
             ELSE IF get_file(files, f) = None \/ blobs[f] = NoBlob
                  THEN Response("GET /files/<id>/download", TRUE, NoBody, f, 404, "file_not_found", "", {})
                  ELSE Response("GET /files/<id>/download", TRUE, NoBody, f, 200, "", "", {})
  /\ UNCHANGED <<jobVars, fileVars, vpVars, libVars>>

\* the "output" of the GET /jobs/<job_id> response: record.output_payload,
\* with "result" replaced by read_output_artifacts(job_id) when the job is
\* completed and its artifact directory is not empty
job_output(record, dir) ==
  LET artifact_outputs == read_output_artifacts(dir)
  IN  IF record.state = "completed" /\ DOMAIN artifact_outputs # {}
      THEN IF record.output_payload # None
           THEN Some([record.output_payload[1] EXCEPT !.result = artifact_outputs])
           ELSE Some([prompt_id |-> 0, status |-> "", result |-> artifact_outputs])
      ELSE record.output_payload

\* GET /jobs/<job_id>
GetJob(key, j) ==
  /\ is_authorized(key, api_key) => store_lock_free
  /\ resp' = IF ~is_authorized(key, api_key) THEN Unauthorized("GET /jobs/<id>", j)
             ELSE IF jobs[j].state = "none"
                  THEN Response("GET /jobs/<id>", TRUE, NoBody, j, 404, "job_not_found", "", {})
                  ELSE [Response("GET /jobs/<id>", TRUE, NoBody, j, 200, "", jobs[j].state, {})
                          EXCEPT !.output = job_output(jobs[j], artdir[j])]
  /\ UNCHANGED <<jobVars, fileVars, vpVars, libVars>>

\* ------------------------------------------------ request handlers: do_POST
\* POST /files: the whole of create_file runs inside the handler.
PostFiles(key, content) ==
  IF ~is_authorized(key, api_key)
  THEN /\ resp' = Unauthorized("POST /files", 0)
       /\ UNCHANGED <<jobVars, fileVars, vpVars, libVars>>
  ELSE IF Len(content) <= 0
  THEN /\ resp' = Response("POST /files", TRUE, NoBody, 0, 400, "empty_file", "", {})
       /\ UNCHANGED <<jobVars, fileVars, vpVars, libVars>>
  ELSE /\ FreeCalls # {}
       /\ store_lock_free
       /\ LET c == NewCall IN
            /\ blobs' = write_blob(blobs, c, content)
            /\ files' = insert_file(files, c, content, "application/octet-stream",
                                    "uploaded", "")
            /\ upl' = [upl EXCEPT ![c] = [pc |-> "done", content |-> content,
                                          media_type |-> "application/octet-stream",
                                          source |-> "uploaded", app_id |-> "",
                                          row_id |-> last_insert_rowid(files')]]
            /\ resp' = Response("POST /files", TRUE, NoBody, c, 201, "", "", {})
       /\ UNCHANGED <<jobVars, vpVars, libVars>>

\* POST /run
PostRun(key, body) ==
  IF ~is_authorized(key, api_key)
  THEN /\ resp' = Unauthorized("POST /run", 0)
       /\ UNCHANGED <<jobVars, fileVars, vpVars, libVars>>
  ELSE IF body.kind = "bad_utf8"
  THEN \* raw_body.decode("utf-8") raises UnicodeDecodeError, which is not caught
       /\ resp' = Response("POST /run", TRUE, body, 0, 0, "", "", {})
       /\ UNCHANGED <<jobVars, fileVars, vpVars, libVars>>
  ELSE IF body.kind = "bad_json"
  THEN /\ resp' = Response("POST /run", TRUE, body, 0, 400, "VALIDATION_ERROR", "invalid_json", {})
       /\ UNCHANGED <<jobVars, fileVars, vpVars, libVars>>
  ELSE IF validate_json(ContractInputs, body).raised # ""
  THEN \* the exception leaves do_POST: no response is written
       /\ resp' = Response("POST /run", TRUE, body, 0, 0, "", "", {})
       /\ UNCHANGED <<jobVars, fileVars, vpVars, libVars>>
  ELSE IF ~validate_json(ContractInputs, body).ok
  THEN /\ resp' = Response("POST /run", TRUE, body, 0, 400, "VALIDATION_ERROR",
                           validate_json(ContractInputs, body).detail,
                           validate_json(ContractInputs, body).names)
       /\ UNCHANGED <<jobVars, fileVars, vpVars, libVars>>
  ELSE /\ FreeJobIds # {}
       /\ store_lock_free
       /\ LET j == NewJobId IN
            /\ jobs' = create(jobs, j, body.keys)
            /\ hist' = [hist EXCEPT ![j] = <<"queued">>]
            /\ pc' = [pc EXCEPT ![j] = "start"]      \* worker.start()
            /\ refs' = [refs EXCEPT ![j] = body.ref]
            /\ resp' = Response("POST /run", TRUE, body, j, 202, "", "queued", {})
       /\ UNCHANGED <<remaining, artdir, snapshot, submitted, cancelPosted, cancelSeen, raised,
                      engine, fileVars, vpVars, libVars>>

\* POST /jobs/<job_id>/cancel: do_POST knows /files and /run only, every other
\* path is answered 404 before the key is looked at.
PostJobCancel(key, j) ==
  /\ resp' = Response("POST /jobs/<id>/cancel", is_authorized(key, api_key), NoBody, j,
                      404, "not_found", "", {})
  /\ cancelPosted' = [cancelPosted EXCEPT ![j] =
                        @ \/ (is_authorized(key, api_key) /\ jobs[j].state \in {"queued", "running"})]
  /\ UNCHANGED <<jobs, pc, remaining, artdir, snapshot, submitted, hist, cancelSeen, raised,
                 refs, engine,
                 fileVars, vpVars, libVars>>

\* ------------------------------------------------------------ job executor
FieldNamed(n) == ContractOutputs[CHOOSE i \in 1..Len(ContractOutputs) : ContractOutputs[i].name = n]

NoErr == Err("", "", <<>>)

\* a loop that returns whatever artifacts exist once the deadline has passed
resolve_contract_outputs_partial(time_left, artifacts) ==
  IF time_left = 0 \/ missing_names(artifacts) = {}
  THEN [kind |-> "return", error |-> NoErr,
        result |-> [n \in DOMAIN artifacts |-> StrVal(artifacts[n].v)]]
  ELSE [kind |-> "sleep", result |-> <<>>, error |-> NoErr]

\* a loop without a deadline ("while True")
resolve_contract_outputs_forever(time_left, artifacts) ==
  IF missing_names(artifacts) # {}
  THEN [kind |-> "sleep", result |-> <<>>, error |-> NoErr]
  ELSE [kind |-> "return", error |-> NoErr,
        result |-> [n \in OutputNames |-> StrVal(artifacts[n].v)]]

\* One pass of the "while time.time() < deadline" loop of
\* _resolve_contract_outputs, given the ticks left and the artifacts read.
resolve_contract_outputs(time_left, artifacts) ==
  IF time_left = 0
  THEN [kind |-> "raise", result |-> <<>>, exc |-> "OutputResolutionError",
        error |-> Err("OUTPUT_TIMEOUT", "missing_artifacts", expected_output_names)]
  ELSE IF missing_names(artifacts) # {}
  THEN [kind |-> "sleep", result |-> <<>>, error |-> NoErr]
  ELSE IF first_failing_field(1, artifacts) # 0
  THEN LET f == ContractOutputs[first_failing_field(1, artifacts)]
       IN  [kind |-> "raise", result |-> <<>>, exc |-> resolve_field(f, artifacts[f.name]).exc,
            error |-> resolve_field(f, artifacts[f.name]).error[1]]
  ELSE [kind |-> "return", error |-> NoErr,
        result |-> [n \in OutputNames |-> resolve_field(FieldNamed(n), artifacts[n]).value]]

\* _execute_job, first statement: job_store.mark_running(job_id)
ExecMarkRunning(j) ==
  /\ pc[j] = "start"
  /\ jobs' = mark_running(jobs, j)
  /\ hist' = [hist EXCEPT ![j] = Append(@, jobs'[j].state)]
  /\ pc' = [pc EXCEPT ![j] = "submit"]
  /\ UNCHANGED <<remaining, artdir, snapshot, submitted, cancelPosted, cancelSeen, raised,
                 refs, engine,
                 resp, fileVars, vpVars, libVars>>

\* the engine has not finished the prompt; otherwise the ticks since it did,
\* counted up to the grace window
NotFinished == 0 - 1
GraceTicks == 1

SubmitOutcomes == {"ok", "PromptMappingError", "ComfyClientError", "Exception"}

NoException == "none"

\* the except clauses without "except ComfyClientError": a ComfyClientError is a
\* RuntimeError and falls through to "except Exception"
ErrorPrefixNoQueueClause(outcome) ==
  CASE outcome = "PromptMappingError" -> "VALIDATION_ERROR"
    [] OTHER                          -> "SYSTEM_ERROR"

\* The except clauses of _execute_job for what the mapper and the client raise;
\* an OutputResolutionError is stored as str(exc), see ExecPoll.
ErrorPrefix(outcome) ==
  CASE outcome = "PromptMappingError" -> "VALIDATION_ERROR"
    [] outcome = "ComfyClientError"   -> "QUEUE_ERROR"
    [] OTHER                          -> "SYSTEM_ERROR"

\* The except clause that catches an exception of class exc carrying `error`:
\* an OutputResolutionError is stored as str(exc), anything else under the
\* prefix of its clause.
except_clause(exc, error) ==
  IF exc = "OutputResolutionError" THEN error
  ELSE Err(ErrorPrefix(exc), error.detail, <<>>)

\* _execute_job: map_contract_payload_to_prompt, then comfy_client.queue_prompt;
\* either may raise, and the except clauses mark the job failed.
ExecSubmit(j, outcome) ==
  /\ pc[j] = "submit"
  /\ IF outcome = "ok"
     THEN /\ submitted' = submitted \cup {j}
          /\ remaining' = [remaining EXCEPT ![j] = TimeoutTicks]   \* deadline = now + timeout
          /\ pc' = [pc EXCEPT ![j] = "loop"]
          /\ UNCHANGED <<jobs, hist>>
     ELSE /\ jobs' = mark_failed(jobs, j, Err(ErrorPrefix(outcome), "", <<>>))
          /\ hist' = [hist EXCEPT ![j] = Append(@, jobs'[j].state)]
          /\ pc' = [pc EXCEPT ![j] = "done"]
          /\ UNCHANGED <<submitted, remaining>>
  /\ UNCHANGED <<refs, engine>>
  /\ raised' = [raised EXCEPT ![j] = IF outcome = "ok" THEN @ ELSE outcome]
  /\ UNCHANGED <<artdir, snapshot, cancelPosted, cancelSeen, resp, fileVars, vpVars, libVars>>

\* _execute_job inside _resolve_contract_outputs: one loop pass, and on return
\* or raise the mark_completed / mark_failed that ends the thread.
ExecPoll(j) ==
  /\ pc[j] = "loop"
  /\ LET arts == read_output_artifacts(artdir[j])
         out  == resolve_contract_outputs(remaining[j], arts)
     IN  /\ snapshot' = IF remaining[j] = 0 THEN snapshot ELSE [snapshot EXCEPT ![j] = arts]
         /\ IF out.kind = "sleep"
            THEN /\ pc' = [pc EXCEPT ![j] = "sleep"]
                 /\ cancelSeen' = [cancelSeen EXCEPT ![j] = @ \/ cancelPosted[j]]
                 /\ UNCHANGED <<jobs, hist, raised>>
            ELSE /\ jobs' = IF out.kind = "return"
                            THEN mark_completed(jobs, j, [prompt_id |-> j, status |-> "completed",
                                                          result |-> out.result])
                            ELSE mark_failed(jobs, j, except_clause(out.exc, out.error))
                 /\ hist' = [hist EXCEPT ![j] = Append(@, jobs'[j].state)]
                 /\ pc' = [pc EXCEPT ![j] = "done"]
                 /\ raised' = [raised EXCEPT ![j] = IF out.kind = "raise" THEN out.exc ELSE @]
                 /\ UNCHANGED cancelSeen
  /\ UNCHANGED <<remaining, artdir, submitted, cancelPosted, refs, engine, resp, fileVars, vpVars,
                 libVars>>

\* time.sleep(max(0.2, poll_seconds)) ends; the clock has moved one tick nearer
\* to every running deadline.
Tick ==
  /\ \E j \in JobIds : pc[j] = "sleep" \/ (pc[j] = "loop" /\ remaining[j] > 0)
  /\ remaining' = [j \in JobIds |->
                     IF pc[j] \in {"loop", "sleep"} /\ remaining[j] > 0
                     THEN remaining[j] - 1 ELSE remaining[j]]
  /\ pc' = [j \in JobIds |-> IF pc[j] = "sleep" THEN "loop" ELSE pc[j]]
  /\ engine' = [j \in JobIds |->
                  IF engine[j] # NotFinished /\ engine[j] < GraceTicks
                  THEN engine[j] + 1 ELSE engine[j]]
  /\ UNCHANGED <<jobs, artdir, snapshot, submitted, hist, cancelPosted, cancelSeen, raised,
                 refs,
                 resp, fileVars, vpVars, libVars>>

\* The engine finishes the job's prompt: from now on GET /history/<prompt_id>
\* reports it with status.completed, and no node of the graph runs any more.
EngineFinishPrompt(j) ==
  /\ j \in submitted
  /\ engine[j] = NotFinished
  /\ engine' = [engine EXCEPT ![j] = 0]
  /\ UNCHANGED <<jobs, pc, remaining, artdir, snapshot, submitted, hist, cancelPosted,
                 cancelSeen, raised, refs, resp, fileVars, vpVars, libVars>>

\* The engine runs an ApiOutput node of the job's graph: ApiOutputNode.execute
\* writes <artifacts_dir>/<ce_job_id>/<name>.
EngineWriteArtifact(j, n, text) ==
  /\ j \in submitted
  /\ engine[j] = NotFinished
  /\ artdir[j][n] = Absent
  /\ artdir' = [artdir EXCEPT ![j][n] = text]
  /\ UNCHANGED <<jobs, pc, remaining, snapshot, submitted, hist, cancelPosted, cancelSeen, raised,
                 refs, engine,
                 resp, fileVars, vpVars, libVars>>

\* ---------------------------------------------------------- specifications
InitJobs ==
  /\ jobs = [j \in JobIds |-> NoJob]
  /\ pc = [j \in JobIds |-> "none"]
  /\ remaining = [j \in JobIds |-> 0]
  /\ artdir = [j \in JobIds |-> NoArtifacts]
  /\ snapshot = [j \in JobIds |-> <<>>]
  /\ submitted = {}
  /\ hist = [j \in JobIds |-> <<>>]
  /\ cancelPosted = [j \in JobIds |-> FALSE]
  /\ cancelSeen = [j \in JobIds |-> FALSE]
  /\ raised = [j \in JobIds |-> NoException]
  /\ refs = [j \in JobIds |-> NoRef]
  /\ engine = [j \in JobIds |-> NotFinished]
  /\ resp = NoResponse

InitFiles ==
  /\ files = <<>>
  /\ blobs = [f \in FileIds |-> NoBlob]
  /\ upl = [c \in FileIds |-> IdleCall]

InitVp ==
  /\ vp_inputs = <<>>
  /\ vp_payload = {}
  /\ vp_result = None

\* ------------------------------------------------ pre-start artifact resolver
\* deploy/bootstrap.py. A preflight payload is {"prompt": {id: node}}; a node
\* here has one input slot. A value is a string or something else.
ModelSlots == {"ckpt_name", "unet_name", "clip_name", "clip_name1", "clip_name2",
               "vae_name", "lora_name", "control_net_name"}      \* MODEL_DIR_BY_INPUT_NAME
SlotOverrides == {<<"WanVideoModelLoader", "model">>, <<"WanVideoVAELoader", "model_name">>}

GraphNode(class_type, input_name, is_str, value) ==
  [class_type |-> class_type, input_name |-> input_name, is_str |-> is_str, value |-> value]

\* _catalog_filename_candidates: the trimmed value and its basename
catalog_filename_candidates(value) ==
  CASE value = "" -> {}
    [] value = "sub/weights.safetensors" -> {"sub/weights.safetensors", "weights.safetensors"}
    [] OTHER -> {value}

Requirement(node) ==
  [class_type |-> node.class_type, input_name |-> node.input_name, filename |-> node.value]

\* the slot of the node names a model file
is_model_reference(node) ==
  /\ node.class_type # ""
  /\ node.input_name \in ModelSlots \/ <<node.class_type, node.input_name>> \in SlotOverrides
  /\ node.is_str /\ node.value # ""

\* _known_model_requirements_from_prompt: one requirement for each distinct
\* (class_type, input_name, filename), in node order.
RECURSIVE known_model_requirements(_, _)
known_model_requirements(nodes, seen) ==
  IF nodes = <<>> THEN <<>>
  ELSE LET node == Head(nodes)
       IN  IF is_model_reference(node) /\ Requirement(node) \notin seen
           THEN <<Requirement(node)>> \o known_model_requirements(Tail(nodes), seen \cup {Requirement(node)})
           ELSE known_model_requirements(Tail(nodes), seen)

known_model_requirements_from_prompt(payload) ==
  IF ~payload.has_prompt THEN <<>> ELSE known_model_requirements(payload.nodes, {})

\* An ArtifactSourceSpec together with what the disk and the network hold for
\* it: a model's target path exists or not and its download succeeds or
\* raises; a custom node's directory exists, or git clone creates it, or git
\* clone succeeds into another directory, or git clone raises.
ModelSpec(match, target_path, on_disk, download) ==
  [kind |-> "model", match |-> match, target_path |-> target_path, on_disk |-> on_disk,
   download |-> download, node_dir |-> ""]
CustomNodeSpec(node_dir) ==
  [kind |-> "custom_node", match |-> "", target_path |-> "", on_disk |-> FALSE,
   download |-> "", node_dir |-> node_dir]

\* _artifact_candidates_from_spec
artifact_candidates_from_spec(spec) ==
  catalog_filename_candidates(spec.match) \cup catalog_filename_candidates(spec.target_path)

\* _json_error_payload, with the entries of details.unresolved_models
json_error_payload(stage, unresolved_models) ==
  [error |-> TRUE, status |-> "artifact_resolver_failed", stage |-> stage,
   unresolved_models |-> unresolved_models]

NoResolverError == [error |-> FALSE, status |-> "", stage |-> "", unresolved_models |-> <<>>]

Unresolved(filename, reason) == [filename |-> filename, reason |-> reason]

\* the first model spec whose candidates meet the requirement's, 0 for none
selected_spec(requirement, model_specs) ==
  LET hits == {i \in 1..Len(model_specs) :
                 catalog_filename_candidates(requirement.filename)
                   \cap artifact_candidates_from_spec(model_specs[i]) # {}}
  IN  IF hits = {} THEN 0 ELSE CHOOSE i \in hits : \A k \in hits : i <= k

\* The target paths under cache_models_root that exist when the resolver is
\* called.
model_paths_before(artifact_specs) ==
  {artifact_specs[i].target_path :
     i \in {k \in 1..Len(artifact_specs) :
              artifact_specs[k].kind # "custom_node" /\ artifact_specs[k].on_disk}}

\* The target paths that exist once the download loop is over: those that
\* existed before, and those of the specs selected for a requirement whose
\* download succeeded.
model_paths_after_resolution(artifact_specs, preflight_payload) ==
  LET model_specs == SelectSeq(artifact_specs, LAMBDA item : item.kind # "custom_node")
      before == model_paths_before(artifact_specs)
      requirements == known_model_requirements_from_prompt(preflight_payload)
      chosen == {selected_spec(requirements[i], model_specs) : i \in 1..Len(requirements)} \ {0}
  IN  before \cup {model_specs[i].target_path :
                     i \in {k \in chosen : model_specs[k].download = "ok"}}

\* a resolver without the re-check after the downloads
still_missing_models_unchecked(model_specs, disk) == <<>>

\* "for spec in model_specs: if not target_path.exists()": the specs whose
\* target path is not on disk, in the order declared
still_missing_models(model_specs, disk) ==
  SelectSeq(model_specs, LAMBDA spec : spec.target_path \notin disk)

\* _prestart_resolve_artifacts_or_error
prestart_resolve_artifacts_or_error(config_ok, artifact_specs, preflight_payload) ==
  IF ~config_ok THEN json_error_payload("artifact_config", <<>>)
  ELSE IF artifact_specs = <<>> THEN NoResolverError
  ELSE
    LET custom_node_specs == SelectSeq(artifact_specs, LAMBDA item : item.kind = "custom_node")
        model_specs == SelectSeq(artifact_specs, LAMBDA item : item.kind # "custom_node")
        unresolved_custom_nodes ==
          SelectSeq(custom_node_specs, LAMBDA item : item.node_dir \in {"clone_elsewhere", "clone_raises"})
        requirements == known_model_requirements_from_prompt(preflight_payload)
        undeclared == SelectSeq(requirements, LAMBDA r : selected_spec(r, model_specs) = 0)
        resolved_items == SelectSeq(requirements, LAMBDA r : selected_spec(r, model_specs) # 0)
        before == model_paths_before(artifact_specs)
        needs_download(r) == model_specs[selected_spec(r, model_specs)].target_path \notin before
        source_failures ==
          SelectSeq(resolved_items,
                    LAMBDA r : needs_download(r)
                               /\ model_specs[selected_spec(r, model_specs)].download = "raises")
        absent_after ==
          still_missing_models(model_specs,
                               model_paths_after_resolution(artifact_specs, preflight_payload))
        unresolved_models ==
          [i \in 1..Len(undeclared) |->
             Unresolved(undeclared[i].filename, "required_model_not_declared_in_app_artifacts")]
          \o [i \in 1..Len(source_failures) |->
               Unresolved(source_failures[i].filename, "download_failed")]
          \o [i \in 1..Len(absent_after) |->
               Unresolved(absent_after[i].match, "missing_on_disk_after_resolution")]
    IN  IF unresolved_custom_nodes # <<>>
        THEN json_error_payload("custom_node_resolution", <<>>)
        ELSE IF unresolved_models # <<>>
        THEN json_error_payload("model_resolution", unresolved_models)
        ELSE NoResolverError

IdleResolve == [pc |-> "idle", field |-> [name |-> "", type |-> ""], value |-> NullVal,
                state |-> "none", error |-> None, result |-> None]

\* a child process: not started, running, sent SIGTERM by terminate(), or
\* exited with a return code
NoChild == [st |-> "none", code |-> 0]

\* ComfyClientError carries status_code = None unless an HTTP error made it
NoStatus == 0 - 1

IdleClient ==
  [pc |-> "idle", paths |-> <<>>, answers |-> <<>>, i |-> 0, tried |-> <<>>,
   last_error |-> [ok |-> TRUE, status_code |-> NoStatus, message |-> "", path |-> ""],
   result |-> [ok |-> TRUE, status_code |-> NoStatus, message |-> "", path |-> ""]]

\* ------------------------------------------------ model roots on the cache
\* _ensure_model_roots_on_cache. Two of MODEL_SUBDIRS, in sorted order; a
\* directory holds at most the file demo.safetensors, with content 1 or 2.
ModelSubdirs == <<"checkpoints", "vae">>
ModelFileNames == {"demo.safetensors"}
NoFile == 0
ModelFileContents == {1, 2}
EmptyDir == [n \in ModelFileNames |-> NoFile]

\* what <comfy_models_root>/<subdir> is: nothing, a real directory with its
\* files, a symlink to the cache directory or elsewhere, or a regular file
PathKinds == {"absent", "dir", "symlink_cache", "symlink_other", "file"}

IdleRoots ==
  [pc |-> "idle", i |-> 0, run |-> 0,
   comfy |-> [d \in {} |-> 0], cache |-> [d \in {} |-> 0],
   comfy0 |-> [d \in {} |-> 0], first |-> <<>>]

\* a path that does not exist, and the file an open("wb") creates
NoPath == [exists |-> FALSE, data |-> <<>>]
EmptyFile == [exists |-> TRUE, data |-> <<>>]

IdleDownload ==
  [pc |-> "idle", source |-> <<>>, fs |-> [p \in {"target", "part"} |-> NoPath], calls |-> 0]

IdleSupervisor ==
  [pc |-> "idle", config_ok |-> TRUE, specs |-> <<>>, payload |-> [has_prompt |-> FALSE, nodes |-> <<>>],
   resolver |-> NoResolverError, degraded |-> FALSE, comfy |-> NoChild, gateway |-> NoChild,
   log |-> <<>>, handler_failed |-> FALSE, signals |-> 0, status |-> 0,
   answer |-> [route |-> "", status |-> 0, body |-> ""], disk |-> {}]

InitSide ==
  /\ oc = IdleResolve
  /\ sv = IdleSupervisor
  /\ cc = IdleClient
  /\ mr = IdleRoots
  /\ dl = IdleDownload

InitLib ==
  /\ rd = IdleReader
  /\ walk = IdleWalk
  /\ rt = IdleRoundTrip
  /\ mp = IdleMapper
  /\ InitSide

Init == InitJobs /\ InitFiles /\ InitVp /\ InitLib

HttpContents == {<<>>, <<1>>}

Requests ==
  \/ \E key \in Keys : GetHealthz(key)
  \/ \E key \in Keys : GetContract(key)
  \/ \E key \in Keys : GetFiles(key)
  \/ \E key \in Keys, f \in FileIds : GetFile(key, f)
  \/ \E key \in Keys, f \in FileIds : GetFileDownload(key, f)
  \/ \E key \in Keys, j \in JobIds : GetJob(key, j)
  \/ \E key \in Keys, content \in HttpContents : PostFiles(key, content)
  \/ \E key \in Keys, body \in Bodies : PostRun(key, body)
  \/ \E key \in Keys, j \in JobIds : PostJobCancel(key, j)

Executors ==
  \/ \E j \in JobIds : ExecMarkRunning(j)
  \/ \E j \in JobIds, outcome \in SubmitOutcomes : ExecSubmit(j, outcome)
  \/ \E j \in JobIds : ExecPoll(j)
  \/ Tick
  \/ \E j \in JobIds, n \in OutputNames, text \in RawTexts : EngineWriteArtifact(j, n, text)

\* The gateway under arbitrary clients.
Next == Requests \/ Executors

Spec == Init /\ [][Next]_vars

\* The gateway under clients that hold the key and post payloads that pass
\* validation: the job lifecycle.
ValidBodies == {b \in ObjectBodies : validate_payload(ContractInputs, b.keys).ok}

ClientRequests ==
  \/ \E body \in ValidBodies : PostRun(api_key, body)
  \/ \E j \in JobIds : PostJobCancel(api_key, j)

NextJobs == ClientRequests \/ Executors

SpecJobs == Init /\ [][NextJobs]_vars

\* Every worker thread is scheduled again and again, and time passes.
\* The gateway under clients that upload files and post payloads naming a
\* file id for the media input.
MediaRequests ==
  \/ \E content \in HttpContents : PostFiles(api_key, content)
  \/ \E body \in MediaBodies : PostRun(api_key, body)

NextMedia == MediaRequests \/ Executors

SpecMedia == Init /\ [][NextMedia]_vars

\* The same clients, and an engine that may finish a prompt before every
\* ApiOutput node has written its artifact.
NextGrace == NextJobs \/ \E j \in JobIds : EngineFinishPrompt(j)

SpecGrace == Init /\ [][NextGrace]_vars

\* The same clients reading their jobs back, and an engine whose ApiOutput
\* nodes also write texts that json.loads reads as a number.
NumericTexts == {"1"}

NextJobOutput ==
  \/ NextJobs
  \/ \E j \in JobIds : GetJob(api_key, j)
  \/ \E j \in JobIds, n \in OutputNames, text \in NumericTexts : EngineWriteArtifact(j, n, text)

SpecJobOutput == Init /\ [][NextJobOutput]_vars

FairSpecJobs ==
  /\ SpecJobs
  /\ \A j \in JobIds : WF_vars(ExecMarkRunning(j))
  /\ \A j \in JobIds : WF_vars(\E outcome \in SubmitOutcomes : ExecSubmit(j, outcome))
  /\ \A j \in JobIds : WF_vars(ExecPoll(j))
  /\ WF_vars(Tick)

\* ------------------------------------------------- JobStore as a library
\* The JobStore methods called in any order by any thread holding the store
\* (the gateway's workers, the unit tests).
StorePayloads == SUBSET PayloadKeys
StoreOutputs == {[prompt_id |-> 1, status |-> "completed", result |-> <<>>],
                 [prompt_id |-> 2, status |-> "completed", result |-> <<>>]}
StoreErrors == {Err("QUEUE_ERROR", "", <<>>), Err("SYSTEM_ERROR", "", <<>>)}

StoreCreate(payload) ==
  /\ FreeJobIds # {}
  /\ jobs' = create(jobs, NewJobId, payload)
  /\ UNCHANGED <<pc, remaining, artdir, snapshot, submitted, hist, cancelPosted, cancelSeen, raised,
                 refs, engine,
                 resp, fileVars, vpVars, libVars>>

StoreMarkRunning(j) ==
  /\ jobs' = mark_running(jobs, j)
  /\ UNCHANGED <<pc, remaining, artdir, snapshot, submitted, hist, cancelPosted, cancelSeen, raised,
                 refs, engine,
                 resp, fileVars, vpVars, libVars>>

StoreMarkCompleted(j, output_payload) ==
  /\ jobs' = mark_completed(jobs, j, output_payload)
  /\ UNCHANGED <<pc, remaining, artdir, snapshot, submitted, hist, cancelPosted, cancelSeen, raised,
                 refs, engine,
                 resp, fileVars, vpVars, libVars>>

StoreMarkFailed(j, error) ==
  /\ jobs' = mark_failed(jobs, j, error)
  /\ UNCHANGED <<pc, remaining, artdir, snapshot, submitted, hist, cancelPosted, cancelSeen, raised,
                 refs, engine,
                 resp, fileVars, vpVars, libVars>>

NextStore ==
  \/ \E payload \in StorePayloads : StoreCreate(payload)
  \/ \E j \in JobIds : StoreMarkRunning(j)
  \/ \E j \in JobIds, o \in StoreOutputs : StoreMarkCompleted(j, o)
  \/ \E j \in JobIds, e \in StoreErrors : StoreMarkFailed(j, e)

SpecStore == Init /\ [][NextStore]_vars

\* -------------------------------------------- validate_payload on its own
VpNames == {"a", "b"}        \* names a contract may declare
VpKeys == {"a", "b", "x"}    \* keys a payload may carry
VpFields == [name : VpNames, required : BOOLEAN]
VpContracts == UNION {[1..n -> VpFields] : n \in 1..MaxInputs}

InitValidate ==
  /\ InitJobs /\ InitFiles /\ InitLib
  /\ vp_inputs \in VpContracts
  /\ vp_payload \in SUBSET VpKeys
  /\ vp_result = None

\* ok, detail = self.app.validate_payload(payload)
ValidateCall(payload) ==
  /\ vp_payload' = payload
  /\ vp_result' = Some(validate_payload(vp_inputs, payload))
  /\ UNCHANGED <<vp_inputs, jobVars, resp, fileVars, libVars>>

NextValidate == \E payload \in SUBSET VpKeys : ValidateCall(payload)

SpecValidate == InitValidate /\ [][NextValidate]_vars

\* ------------------------------------- create_file, statement by statement
\* Concurrent callers of JobStore.create_file (request threads, ApiOutput
\* nodes); every statement that touches the disk or the database may fail.
Sources == {"uploaded", "generated"}
CallMediaTypes == {"image/png"}   \* media_type arguments of the create_file calls
CallAppIds == {""}                \* app_id arguments (None)

\* What target_path.write_bytes(content) leaves behind when it raises: no file
\* (open failed) or a proper prefix of the content.
PartialWrites(content) ==
  {NoBlob} \cup {SubSeq(content, 1, k) : k \in 0..(Len(content) - 1)}

\* "if not content: raise ValueError", else file_id, names and suffix are set
\* a create_file that inserts the row first and writes the blob afterwards
CreateFileBeginRowFirst(content, media_type, source, app_id) ==
  /\ FreeCalls # {}
  /\ content # <<>>
  /\ files' = insert_file(files, NewCall, content, media_type, source, app_id)
  /\ upl' = [upl EXCEPT ![NewCall] =
               [pc |-> "write", content |-> content, media_type |-> media_type,
                source |-> source, app_id |-> app_id, row_id |-> 0]]
  /\ UNCHANGED <<blobs, jobVars, resp, vpVars, libVars>>

CreateFileBegin(content, media_type, source, app_id) ==
  /\ FreeCalls # {}
  /\ upl' = [upl EXCEPT ![NewCall] =
               [pc |-> IF content = <<>> THEN "raised" ELSE "write",
                content |-> content, media_type |-> media_type, source |-> source,
                app_id |-> app_id, row_id |-> 0]]
  /\ UNCHANGED <<files, blobs, jobVars, resp, vpVars, libVars>>

\* target_path.write_bytes(content) under way: the file exists and holds a
\* proper prefix of the content; the call has not returned.
CreateFileWriteProgress(c, written) ==
  /\ upl[c].pc = "write"
  /\ written # NoBlob
  /\ blobs[c] # written
  /\ blobs' = write_blob(blobs, c, written)
  /\ UNCHANGED <<files, upl, jobVars, resp, vpVars, libVars>>

\* target_path.write_bytes(content) returns
CreateFileWrite(c) ==
  /\ upl[c].pc = "write"
  /\ blobs' = write_blob(blobs, c, upl[c].content)
  /\ upl' = [upl EXCEPT ![c].pc = "insert"]
  /\ UNCHANGED <<files, jobVars, resp, vpVars, libVars>>

\* a create_file that swallows the OSError and goes on to insert the row
CreateFileWriteFailIgnored(c, written) ==
  /\ upl[c].pc = "write"
  /\ blobs' = write_blob(blobs, c, written)
  /\ upl' = [upl EXCEPT ![c].pc = "insert"]
  /\ UNCHANGED <<files, jobVars, resp, vpVars, libVars>>

\* target_path.write_bytes(content) raises OSError: create_file ends there
CreateFileWriteFail(c, written) ==
  /\ upl[c].pc = "write"
  /\ blobs' = write_blob(blobs, c, written)
  /\ upl' = [upl EXCEPT ![c].pc = "raised"]
  /\ UNCHANGED <<files, jobVars, resp, vpVars, libVars>>

\* self._execute("INSERT INTO files ...") returns
CreateFileInsert(c) ==
  /\ upl[c].pc = "insert"
  /\ files' = insert_file(files, c, upl[c].content, upl[c].media_type, upl[c].source,
                          upl[c].app_id)
  /\ upl' = [upl EXCEPT ![c].pc = "rowid"]
  /\ UNCHANGED <<blobs, jobVars, resp, vpVars, libVars>>

\* self._execute("INSERT INTO files ...") raises sqlite3.Error
CreateFileInsertFail(c) ==
  /\ upl[c].pc = "insert"
  /\ upl' = [upl EXCEPT ![c].pc = "raised"]
  /\ UNCHANGED <<files, blobs, jobVars, resp, vpVars, libVars>>

\* row_id = int(self._fetchone("SELECT last_insert_rowid()")[0])
CreateFileRowId(c) ==
  /\ upl[c].pc = "rowid"
  /\ upl' = [upl EXCEPT ![c].pc = "commit", ![c].row_id = last_insert_rowid(files)]
  /\ UNCHANGED <<files, blobs, jobVars, resp, vpVars, libVars>>

\* self._commit(); return FileRecord(..., cursor_id=row_id)
CreateFileCommit(c) ==
  /\ upl[c].pc = "commit"
  /\ upl' = [upl EXCEPT ![c].pc = "done"]
  /\ UNCHANGED <<files, blobs, jobVars, resp, vpVars, libVars>>

NextFiles ==
  \/ \E c \in FileIds : \E written \in PartialWrites(upl[c].content) :
        CreateFileWriteProgress(c, written)
  \/ \E content \in Contents, media_type \in CallMediaTypes, source \in Sources,
        app_id \in CallAppIds : CreateFileBegin(content, media_type, source, app_id)
  \/ \E c \in FileIds : CreateFileWrite(c)
  \/ \E c \in FileIds : \E written \in PartialWrites(upl[c].content) : CreateFileWriteFail(c, written)
  \/ \E c \in FileIds : CreateFileInsert(c)
  \/ \E c \in FileIds : CreateFileInsertFail(c)
  \/ \E c \in FileIds : CreateFileRowId(c)
  \/ \E c \in FileIds : CreateFileCommit(c)

SpecFiles == Init /\ [][NextFiles]_vars

\* --------------------------- readers running beside the create_file calls
\* record = self.app.job_store.get_file(file_id)   (GET /files/<id>[/download])
ReaderGetFile(f) ==
  /\ rd' = [pc |-> "got", rec |-> get_file(files, f), exists |-> FALSE, data |-> NoBlob]
  /\ UNCHANGED <<jobVars, fileVars, resp, vpVars, notRd>>

\* files, next_cursor = self.app.job_store.list_files(...)   (GET /files):
\* the reader takes the k-th record of the page.
ReaderListFiles(k) ==
  LET page == list_files(files, DefaultLimit, None, "", "", "").records IN
    /\ k \in 1..Len(page)
    /\ rd' = [pc |-> "got", rec |-> Some(page[k]), exists |-> FALSE, data |-> NoBlob]
    /\ UNCHANGED <<jobVars, fileVars, resp, vpVars, notRd>>

\* "if not record or not record.storage_path.exists()": 404, else go on
ReaderExists ==
  /\ rd.pc = "got"
  /\ rd' = IF rd.rec = None THEN [rd EXCEPT !.pc = "not_found"]
           ELSE IF blobs[rd.rec[1].file_id] = NoBlob
                THEN [rd EXCEPT !.pc = "not_found", !.exists = FALSE]
                ELSE [rd EXCEPT !.pc = "exists", !.exists = TRUE]
  /\ UNCHANGED <<jobVars, fileVars, resp, vpVars, notRd>>

\* payload = record.storage_path.read_bytes()
ReaderReadBytes ==
  /\ rd.pc = "exists"
  /\ rd' = [rd EXCEPT !.pc = "read", !.data = blobs[rd.rec[1].file_id]]
  /\ UNCHANGED <<jobVars, fileVars, resp, vpVars, notRd>>

Readers ==
  \/ \E f \in FileIds : ReaderGetFile(f)
  \/ \E k \in FileIds : ReaderListFiles(k)
  \/ ReaderExists
  \/ ReaderReadBytes

\* The create_file calls of SpecFiles (uploads only: the source column plays no
\* part in what a reader finds) with the readers beside them.
NextFilesRead ==
  \/ \E content \in Contents, media_type \in CallMediaTypes, app_id \in CallAppIds :
        CreateFileBegin(content, media_type, "uploaded", app_id)
  \/ \E c \in FileIds : \E written \in PartialWrites(upl[c].content) :
        CreateFileWriteProgress(c, written)
  \/ \E c \in FileIds : CreateFileWrite(c)
  \/ \E c \in FileIds : \E written \in PartialWrites(upl[c].content) : CreateFileWriteFail(c, written)
  \/ \E c \in FileIds : CreateFileInsert(c)
  \/ \E c \in FileIds : CreateFileInsertFail(c)
  \/ \E c \in FileIds : CreateFileRowId(c)
  \/ \E c \in FileIds : CreateFileCommit(c)
  \/ Readers

SpecFilesRead == Init /\ [][NextFilesRead]_vars

\* ================================================================= claims
InputNames == {ContractInputs[i].name : i \in 1..Len(ContractInputs)}
RequiredNames == {ContractInputs[i].name : i \in {k \in 1..Len(ContractInputs) : ContractInputs[k].required}}

\* C1: once a job's stored state is completed, failed or canceled, no later
\* JobStore operation changes its state, output_payload or error.
C1_TerminalSticky ==
  [][\A j \in JobIds :
       jobs[j].state \in Terminal =>
         /\ jobs'[j].state = jobs[j].state
         /\ jobs'[j].output_payload = jobs[j].output_payload
         /\ jobs'[j].error = jobs[j].error]_vars

\* C2: the states stored for a job created by POST /run are queued, then
\* running, then one terminal state; none is skipped, revisited or followed
\* by another, and the row holds the last of them.
C2_LifecycleOrder ==
  \A j \in JobIds :
    LET h == hist[j] IN
      /\ Len(h) <= 3
      /\ Len(h) >= 1 => h[1] = "queued"
      /\ Len(h) >= 2 => h[2] = "running"
      /\ Len(h) >= 3 => h[3] \in Terminal
      /\ jobs[j].state = IF h = <<>> THEN "none" ELSE h[Len(h)]

C2_Witness == \E j \in JobIds : Len(hist[j]) = 3 /\ jobs[j].state \in Terminal

C4_EventuallyTerminal ==
  \A j \in JobIds :
    (jobs[j].state \in {"queued", "running"}) ~> (jobs[j].state \in Terminal)

C4_Witness ==
  \E j \in JobIds :
    /\ jobs[j].state = "failed"
    /\ jobs[j].error = Some(Err("OUTPUT_TIMEOUT", "missing_artifacts", expected_output_names))
    /\ missing_names(read_output_artifacts(artdir[j])) # {}

\* C5: once an authorised cancel request for a queued or running job has been
\* posted, the poll tick that finds artifacts missing ends the job as
\* canceled.
C5_CancelObservedAtNextTick ==
  \A j \in JobIds : cancelSeen[j] => jobs[j].state = "canceled"

\* C6: an authorised POST /jobs/<id>/cancel for a known job is answered 202,
\* the first time and every further time.
C6_CancelAnswered202 ==
  (resp.route = "POST /jobs/<id>/cancel" /\ resp.authorized /\ jobs[resp.id].state # "none")
    => resp.status = 202

\* C7: a request without the configured key to any route but GET /healthz is
\* answered 401 and creates no job, no file and no engine submission.
C7_UnauthorizedRejected ==
  [][(resp' # resp /\ ~resp'.authorized /\ resp'.route # "GET /healthz")
       => /\ resp'.status = 401
          /\ UNCHANGED <<jobs, pc, submitted, files, blobs>>]_vars

\* C8: a POST /run whose body is not valid JSON, lacks a required input or
\* carries an unexpected input is answered 400 VALIDATION_ERROR and creates
\* no job, starts no executor and submits nothing.
FailsValidation(body) ==
  \/ body.kind \in {"bad_json", "bad_utf8"}
  \/ body.kind = "object" /\ ~(RequiredNames \subseteq body.keys /\ body.keys \subseteq InputNames)

C8_InvalidRunRejected ==
  [][(resp' # resp /\ resp'.route = "POST /run" /\ resp'.authorized /\ FailsValidation(resp'.body))
       => /\ resp'.status = 400
          /\ resp'.error = "VALIDATION_ERROR"
          /\ UNCHANGED <<jobs, pc, submitted>>]_vars

\* C9: validate_payload accepts exactly the payloads that hold every required
\* input name and only contract input names; a rejection names one missing
\* required input, or else all the unknown keys.
C9_ValidatePayload ==
  vp_result # None =>
    LET r        == vp_result[1]
        names    == {vp_inputs[i].name : i \in DOMAIN vp_inputs}
        required == {vp_inputs[i].name : i \in {k \in DOMAIN vp_inputs : vp_inputs[k].required}}
    IN  /\ r.ok <=> (required \subseteq vp_payload /\ vp_payload \subseteq names)
        /\ ~r.ok =>
             \/ /\ r.detail = "missing_required_input"
                /\ \E n \in required \ vp_payload : r.names = {n}
             \/ /\ r.detail = "unexpected_inputs"
                /\ required \subseteq vp_payload
                /\ r.names = vp_payload \ names
                /\ r.names # {}

C9_Witness ==
  /\ vp_result # None
  /\ vp_result[1].detail = "unexpected_inputs"
  /\ \E i \in DOMAIN vp_inputs : ~vp_inputs[i].required /\ vp_inputs[i].name \in vp_payload

\* C10: every row of the files table has its blob on disk, of the recorded
\* size and digest, also after create_file calls that failed part-way.
C10_RowsHaveBlobs ==
  \A i \in 1..Len(files) :
    LET blob == blobs[files[i].file_id] IN
      /\ blob # NoBlob
      /\ Len(blob) = files[i].size_bytes
      /\ sha256(blob) = files[i].sha256_hex

C10_Witness ==
  /\ Len(files) >= 1
  /\ \E c \in FileIds :
       /\ upl[c].pc = "raised"
       /\ upl[c].content # <<>>
       /\ blobs[c] # upl[c].content

\* ---------------------------------------- a cursor-based walk of list_files
\* The files table when the walk starts: rows of earlier create_file calls.
ListMediaTypes == {"image/png", "video/mp4"}
ListAppIds == {"", "app"}
RowKinds == [media_type : ListMediaTypes, source : Sources, app_id : ListAppIds]

\* Row i is the row create_file inserted into the table of the i-1 rows before it.
TableOf(kinds) ==
  [i \in 1..Len(kinds) |->
     file_row(SubSeq(kinds, 1, i - 1), i, <<1>>, kinds[i].media_type, kinds[i].source,
              kinds[i].app_id)]

SmallTables == {TableOf(ks) : ks \in UNION {[1..n -> RowKinds] : n \in 0..MaxRows}}

\* Tables around the cap of 200 rows a page, all rows alike.
BigTables ==
  {TableOf([i \in 1..n |-> [media_type |-> "image/png", source |-> "uploaded", app_id |-> ""]]) :
     n \in {LimitCap, LimitCap + 1}}

\* limit, media_type, source, app_id of the query string
SmallLimits == 0..(MaxRows + 1)
BigLimits == {LimitCap - 1, LimitCap, LimitCap + 1, 5 * LimitCap}
FilterMediaTypes == {"", "image/png"}
FilterSources == {"", "uploaded"}
FilterAppIds == {"", "app"}

IdsOf(records) == [k \in 1..Len(records) |-> records[k].id]

\* GET /files?limit=..&media_type=..&source=..&app_id=..  (no cursor)
WalkStart(limit, media_type, source, app_id) ==
  /\ walk.pc = "idle"
  /\ IF Len(files) >= LimitCap
     THEN limit \in BigLimits /\ media_type = "" /\ source = "" /\ app_id = ""
     ELSE limit \in SmallLimits
  /\ LET page == list_files(files, limit, None, media_type, source, app_id) IN
       walk' = [pc |-> IF page.next_cursor = None THEN "done" ELSE "walking",
                limit |-> limit, media_type |-> media_type, source |-> source,
                app_id |-> app_id, cursor |-> page.next_cursor, sent |-> None,
                pages |-> <<IdsOf(page.records)>>, next_cursor |-> page.next_cursor,
                start |-> {files[i].id : i \in matching_rows(files, None, media_type, source, app_id)},
                inserted |-> {}]
  /\ UNCHANGED <<jobVars, fileVars, resp, vpVars, notWalk>>

\* GET /files?cursor=<next_cursor of the previous page>&...
WalkNextPage ==
  /\ walk.pc = "walking"
  /\ LET page == list_files(files, walk.limit, walk.cursor, walk.media_type, walk.source,
                            walk.app_id) IN
       walk' = [walk EXCEPT !.pc = IF page.next_cursor = None THEN "done" ELSE "walking",
                            !.cursor = page.next_cursor, !.sent = walk.cursor,
                            !.pages = Append(walk.pages, IdsOf(page.records)),
                            !.next_cursor = page.next_cursor]
  /\ UNCHANGED <<jobVars, fileVars, resp, vpVars, notWalk>>

\* the INSERT of a create_file call running in another thread during the walk
WalkInsert(source) ==
  /\ walk.pc = "walking"
  /\ Cardinality(walk.inserted) < MaxInserts
  /\ files' = insert_file(files, Len(files) + 1, <<1>>, "image/png", source, "")
  /\ walk' = [walk EXCEPT !.inserted = walk.inserted \cup {files'[Len(files')].id}]
  /\ UNCHANGED <<jobVars, blobs, upl, resp, vpVars, notWalk>>

InitList ==
  /\ InitJobs /\ InitVp /\ InitLib
  /\ files \in SmallTables \cup BigTables
  /\ blobs = [f \in FileIds |-> NoBlob]
  /\ upl = [c \in FileIds |-> IdleCall]

NextList ==
  \/ \E limit \in SmallLimits \cup BigLimits, media_type \in FilterMediaTypes,
        source \in FilterSources, app_id \in FilterAppIds :
        WalkStart(limit, media_type, source, app_id)
  \/ WalkNextPage
  \/ \E source \in Sources : WalkInsert(source)

SpecList == InitList /\ [][NextList]_vars

\* ------------------------- write_output_artifacts, then read_output_artifacts
WriteNames == OutputNames \cup {"sub/image"}
WriteValues ==
  JsonValues \cup {StrVal("fid_a"), StrVal("done"), StrVal(""), StrVal("1"), StrVal("true")}
WriteItems == [name : WriteNames, value : WriteValues]

\* dicts of up to MaxOutputs items, in insertion order
OutputMaps ==
  {items \in UNION {[1..n -> WriteItems] : n \in 0..MaxOutputs} :
     \A a, b \in 1..Len(items) : a # b => items[a].name # items[b].name}

\* store.write_output_artifacts(job_id, outputs)
WriteOutputArtifacts(j, outputs) ==
  /\ rt.pc = "idle"
  /\ artdir' = [artdir EXCEPT ![j] = write_output_artifacts(artdir[j], outputs)]
  /\ rt' = [pc |-> "written", job |-> j, outputs |-> outputs, loaded |-> <<>>]
  /\ UNCHANGED <<jobs, pc, remaining, snapshot, submitted, hist, cancelPosted, cancelSeen, raised,
                 refs, engine,
                 resp, fileVars, vpVars, notRt>>

\* loaded = store.read_output_artifacts(job_id)
ReadOutputArtifacts ==
  /\ rt.pc = "written"
  /\ rt' = [rt EXCEPT !.pc = "read", !.loaded = read_output_artifacts(artdir[rt.job])]
  /\ UNCHANGED <<jobVars, resp, fileVars, vpVars, notRt>>

NextArtifacts ==
  \/ \E j \in JobIds, outputs \in OutputMaps : WriteOutputArtifacts(j, outputs)
  \/ ReadOutputArtifacts

SpecArtifacts == Init /\ [][NextArtifacts]_vars

\* ------------------------------------------------- the mapper on its own
\* Workflow templates: node "1" an ApiInput, node "2" a sampler, node "9" an
\* ApiOutput; contracts of one or two inputs bound to nodes "1", "2", "9" or to
\* a node id the template lacks ("7").
TemplateValue == StrVal("tpl")
SlotsOver(keys) == [k \in keys |-> TemplateValue]

Node1Inputs ==
  {Dict(SlotsOver(keys)) :
     keys \in {{}, {"prompt"}, {"value"}, {"text"}, {"text", "steps"}, {"prompt", "value"}}}
    \cup {NotADict}
Node2Inputs == {Dict(SlotsOver({"value"})), Dict(SlotsOver({"text", "steps"}))}
Node9Classes == {"ApiOutput", " APIOUTPUT "}
Node9Inputs == {Dict(SlotsOver({"name", "type"})), Dict(SlotsOver({"ce_job_id"})), NotADict}

Graphs ==
  {[id \in {"1", "2", "9"} |->
      IF id = "1" THEN [class_type |-> "ApiInput", inputs |-> i1]
      ELSE IF id = "2" THEN [class_type |-> "KSampler", inputs |-> i2]
      ELSE [class_type |-> c9, inputs |-> i9]] :
     i1 \in Node1Inputs, i2 \in Node2Inputs, c9 \in Node9Classes, i9 \in Node9Inputs}

Workflows ==
  {[shape |-> sh, graph |-> g] : sh \in {"prompt", "nodes", "flat"}, g \in Graphs}
    \cup {[shape |-> "none", graph |-> <<>>]}

MapTypes == {"string", "integer", "number", "boolean", "object", "array", "image/png"}
FirstFields == [name : {"prompt"}, type : MapTypes, required : BOOLEAN, node_id : {"1", "7"}]
SecondFields == [name : {"seed"}, type : {"integer"}, required : BOOLEAN,
                 node_id : {"1", "2", "9"}]
MapContracts ==
  {<<f>> : f \in FirstFields} \cup {<<f, g>> : f \in FirstFields, g \in SecondFields}

PayloadValue(name) == IF name = "prompt" THEN StrVal("hello") ELSE IntVal("7")
InputPayloads == {[n \in names |-> PayloadValue(n)] : names \in SUBSET {"prompt", "seed"}}
MapJobIds == {None, Some("job-1")}

InitMapper ==
  /\ InitJobs /\ InitFiles /\ InitVp
  /\ rd = IdleReader /\ walk = IdleWalk /\ rt = IdleRoundTrip /\ InitSide
  /\ \E workflow \in Workflows, inputs \in MapContracts :
       mp = [IdleMapper EXCEPT !.workflow = workflow, !.inputs = inputs, !.template = workflow]

\* map_contract_payload_to_prompt(self.app.workflow, self.app.contract, payload, job_id)
MapCall(input_payload, job_id) ==
  /\ mp.pc = "idle"
  /\ mp' = [mp EXCEPT !.pc = "mapped", !.payload = input_payload, !.job_id = job_id,
                      !.result = map_contract_payload_to_prompt(mp.template, mp.inputs,
                                                                input_payload, job_id),
                      !.template = workflow_after_parse(@)]
  /\ UNCHANGED <<jobVars, fileVars, resp, vpVars, notMp>>

\* the next job: the same call on the workflow as the calls before left it
MapAgain(input_payload, job_id) ==
  /\ mp.pc = "mapped"
  /\ mp' = [mp EXCEPT !.pc = "mapped_again", !.payload = input_payload, !.job_id = job_id,
                      !.preflight = FALSE, !.earlier = mp.result,
                      !.result = map_contract_payload_to_prompt(mp.template, mp.inputs,
                                                                input_payload, job_id),
                      !.template = workflow_after_parse(@)]
  /\ UNCHANGED <<jobVars, fileVars, resp, vpVars, notMp>>

\* build_preflight_payload(workflow, contract)
PreflightCall ==
  /\ mp.pc = "idle"
  /\ mp' = [mp EXCEPT !.pc = "mapped", !.preflight = TRUE,
                      !.payload = preflight_defaults(<<>>, mp.inputs, 1),
                      !.result = build_preflight_payload(mp.template, mp.inputs),
                      !.template = workflow_after_parse(@)]
  /\ UNCHANGED <<jobVars, fileVars, resp, vpVars, notMp>>

NextMapper ==
  \/ \E input_payload \in InputPayloads, job_id \in MapJobIds : MapCall(input_payload, job_id)
  \/ PreflightCall

SpecMapper == InitMapper /\ [][NextMapper]_vars

\* The preflight run or a first job, then another job on the same GatewayApp.
NextMapperAgain ==
  \/ NextMapper
  \/ \E input_payload \in InputPayloads, job_id \in MapJobIds : MapAgain(input_payload, job_id)

SpecMapperAgain == InitMapper /\ [][NextMapperAgain]_vars

\* ------------------------------ one contract output resolved by the executor
\* A gateway whose contract declares the single output `out`, and a job whose
\* artifact directory holds the value the engine wrote for it.
ScalarTypes == {"string", "integer", "number", "boolean", "object", "array"}
ResolveFields == {[name |-> "out", type |-> t] : t \in ScalarTypes \cup {"image/png"}}
ArtifactStrings == {"abc", "12", "1.5", "yes", "nope", "", "fid_a", "/out/a.png"}
ArtifactValues ==
  JsonValues \cup {NullVal, [t |-> "bool", v |-> "false"]} \cup {StrVal(x) : x \in ArtifactStrings}

\* _execute_job has marked the job running and submitted its graph; the engine
\* wrote `value` as the artifact of the one output field.
ResolveStart(field, value) ==
  /\ oc.pc = "idle"
  /\ oc' = [IdleResolve EXCEPT !.pc = "loop", !.field = field, !.value = value,
                               !.state = "running"]
  /\ UNCHANGED <<jobVars, fileVars, resp, vpVars, notOc>>

\* _resolve_contract_outputs finds the artifact, converts it, and _execute_job
\* marks the job completed or, in an except clause, failed.
ResolveFinish ==
  /\ oc.pc = "loop"
  /\ LET r == resolve_field(oc.field, oc.value)
     IN  oc' = [oc EXCEPT !.pc = "done",
                          !.state = IF r.ok THEN "completed" ELSE "failed",
                          !.result = IF r.ok THEN Some(r.value) ELSE None,
                          !.error = IF r.ok THEN None
                                    ELSE Some(except_clause(r.exc, r.error[1]))]
  /\ UNCHANGED <<jobVars, fileVars, resp, vpVars, notOc>>

NextResolve ==
  \/ \E field \in ResolveFields, value \in ArtifactValues : ResolveStart(field, value)
  \/ ResolveFinish

SpecResolve == Init /\ [][NextResolve]_vars

\* ------------------------------------------------------------ the supervisor
\* run_bootstrap from the call of the artifact resolver on. The deployment
\* declares at most MaxSpecs artifacts.
MaxSpecs == 2
MaxSignals == 1

SpecChoices ==
  {ModelSpec("weights.safetensors", "weights.safetensors", TRUE, "ok"),
   ModelSpec("weights.safetensors", "weights.safetensors", FALSE, "ok"),
   ModelSpec("weights.safetensors", "weights.safetensors", FALSE, "raises"),
   ModelSpec("vae.pt", "vae.pt", TRUE, "ok")}
  \cup {CustomNodeSpec(d) : d \in {"exists", "cloned", "clone_elsewhere", "clone_raises"}}

\* lists in which the specs of one target path agree on whether it is on disk
SpecLists ==
  {list \in UNION {[1..n -> SpecChoices] : n \in 0..MaxSpecs} :
     \A i, k \in 1..Len(list) :
       (list[i].kind = "model" /\ list[k].kind = "model"
          /\ list[i].target_path = list[k].target_path) => list[i].on_disk = list[k].on_disk}

PreflightPayloads ==
  {[has_prompt |-> FALSE, nodes |-> <<>>], [has_prompt |-> TRUE, nodes |-> <<>>]}
  \cup {[has_prompt |-> TRUE, nodes |-> <<node>>] :
          node \in {GraphNode("CheckpointLoaderSimple", "ckpt_name", TRUE, "weights.safetensors"),
                    GraphNode("CheckpointLoaderSimple", "ckpt_name", TRUE, "sub/weights.safetensors"),
                    GraphNode("WanVideoModelLoader", "model", TRUE, "weights.safetensors"),
                    GraphNode("CLIPTextEncode", "text", TRUE, "weights.safetensors"),
                    GraphNode("CheckpointLoaderSimple", "ckpt_name", FALSE, "")}}
  \cup {[has_prompt |-> TRUE,
         nodes |-> <<GraphNode("CheckpointLoaderSimple", "ckpt_name", TRUE, "weights.safetensors"),
                     GraphNode("VAELoader", "vae_name", TRUE, "vae.pt")>>]}

RunningChild == [st |-> "running", code |-> 0]
ExitCodes == {0, 1}
SigtermCode == 0 - 15

\* process.poll() is None
poll_is_none(child) == child.st \in {"running", "terminating"}

\* "if process.poll() is None: process.terminate()"
terminate_if_running(child) ==
  IF child.st = "running" THEN [child EXCEPT !.st = "terminating"] ELSE child

\* a supervisor that serves the error endpoint in a thread and goes on
SupResolveAndGoOn ==
  /\ sv.pc = "start"
  /\ LET r == prestart_resolve_artifacts_or_error(sv.config_ok, sv.specs, sv.payload)
     IN  sv' = [sv EXCEPT !.disk = IF r.stage \in {"", "model_resolution"} /\ sv.specs # <<>>
                                       THEN model_paths_after_resolution(sv.specs, sv.payload)
                                       ELSE model_paths_before(sv.specs),
                          !.resolver = r, !.pc = "resolved", !.degraded = r.error,
                          !.log = Append(@, IF r.error THEN "degraded_served" ELSE "resolved")]
  /\ UNCHANGED <<jobVars, fileVars, resp, vpVars, notSv>>

\* resolver_error = _prestart_resolve_artifacts_or_error(...); on an error
\* payload the supervisor serves _run_artifact_failure_endpoint and does
\* nothing else.
SupResolve ==
  /\ sv.pc = "start"
  /\ LET r == prestart_resolve_artifacts_or_error(sv.config_ok, sv.specs, sv.payload)
     IN  sv' = [sv EXCEPT !.disk = IF r.stage \in {"", "model_resolution"} /\ sv.specs # <<>>
                                       THEN model_paths_after_resolution(sv.specs, sv.payload)
                                       ELSE model_paths_before(sv.specs),
                          !.resolver = r,
                          !.pc = IF r.error THEN "degraded" ELSE "resolved",
                          !.degraded = r.error,
                          !.log = Append(@, IF r.error THEN "degraded_served" ELSE "resolved")]
  /\ UNCHANGED <<jobVars, fileVars, resp, vpVars, notSv>>

\* ArtifactFailureHandler.do_GET / do_POST on the gateway port
DegradedRequest(route, key) ==
  /\ sv.pc = "degraded"
  /\ sv' = [sv EXCEPT !.answer =
       CASE route = "GET /healthz" -> [route |-> route, status |-> 503, body |-> "not_ok"]
         [] route \in {"GET /artifact-resolver/error", "POST /run"} ->
              IF key = api_key
              THEN [route |-> route, status |-> 503, body |-> "error_payload"]
              ELSE [route |-> route, status |-> 401, body |-> "unauthorized"]
         [] OTHER -> [route |-> route, status |-> 404, body |-> "not_found"]]
  /\ UNCHANGED <<jobVars, fileVars, resp, vpVars, notSv>>

DegradedRoutes == {"GET /healthz", "GET /artifact-resolver/error", "POST /run", "GET /contract"}

\* comfy_process = start_comfy_process(); gateway_process = None
SupStartEngine ==
  /\ sv.pc = "resolved"
  /\ sv' = [sv EXCEPT !.comfy = RunningChild, !.pc = "engine_started",
                       !.log = Append(@, "engine_started")]
  /\ UNCHANGED <<jobVars, fileVars, resp, vpVars, notSv>>

\* signal.signal(SIGINT, shutdown); signal.signal(SIGTERM, shutdown)
SupInstallHandlers ==
  /\ sv.pc = "engine_started"
  /\ sv' = [sv EXCEPT !.pc = "waiting"]
  /\ UNCHANGED <<jobVars, fileVars, resp, vpVars, notSv>>

\* wait_for_comfy_ready: GET /system_stats answers 200, or the deadline passes
\* and RuntimeError reaches "except Exception", which terminates the engine.
SupProbe(outcome) ==
  /\ sv.pc = "waiting"
  /\ outcome = "200" => sv.comfy.st = "running"
  /\ sv' = IF outcome = "200"
           THEN [sv EXCEPT !.pc = "preflight", !.log = Append(@, "ready")]
           ELSE [sv EXCEPT !.pc = "raised", !.comfy = terminate_if_running(@)]
  /\ UNCHANGED <<jobVars, fileVars, resp, vpVars, notSv>>

\* an except clause that re-raises without terminating the engine
SupPreflightNoCleanup(outcome) ==
  /\ sv.pc = "preflight"
  /\ outcome = "prompt_id" => sv.comfy.st = "running"
  /\ sv' = IF outcome = "prompt_id"
           THEN [sv EXCEPT !.pc = "launch", !.log = Append(@, "preflight_ok")]
           ELSE [sv EXCEPT !.pc = "raised"]
  /\ UNCHANGED <<jobVars, fileVars, resp, vpVars, notSv>>

\* comfy_client.queue_prompt(preflight_payload) returns a prompt id or raises
\* ComfyClientError, re-raised as RuntimeError after terminating the engine.
SupPreflight(outcome) ==
  /\ sv.pc = "preflight"
  /\ outcome = "prompt_id" => sv.comfy.st = "running"
  /\ sv' = IF outcome = "prompt_id"
           THEN [sv EXCEPT !.pc = "launch", !.log = Append(@, "preflight_ok")]
           ELSE [sv EXCEPT !.pc = "raised", !.comfy = terminate_if_running(@)]
  /\ UNCHANGED <<jobVars, fileVars, resp, vpVars, notSv>>

\* a supervisor that starts the gateway as soon as the engine runs
SupStartGatewayEarly ==
  /\ sv.pc \in {"waiting", "preflight", "launch"}
  /\ sv' = [sv EXCEPT !.gateway = RunningChild, !.pc = "running",
                       !.log = Append(@, "gateway_started")]
  /\ UNCHANGED <<jobVars, fileVars, resp, vpVars, notSv>>

\* gateway_process = subprocess.Popen(shlex.split(gateway_command))
SupStartGateway ==
  /\ sv.pc = "launch"
  /\ sv' = [sv EXCEPT !.gateway = RunningChild, !.pc = "running",
                       !.log = Append(@, "gateway_started")]
  /\ UNCHANGED <<jobVars, fileVars, resp, vpVars, notSv>>

\* a loop that returns 0 whichever child exited
SupLoopReturnsZero ==
  /\ sv.pc = "running"
  /\ ~poll_is_none(sv.comfy) \/ ~poll_is_none(sv.gateway)
  /\ sv' = [sv EXCEPT !.pc = "returned", !.status = 0,
                       !.comfy = terminate_if_running(@), !.gateway = terminate_if_running(@)]
  /\ UNCHANGED <<jobVars, fileVars, resp, vpVars, notSv>>

\* one pass of the "while True" loop that finds a child exited
SupLoop ==
  /\ sv.pc = "running"
  /\ ~poll_is_none(sv.comfy) \/ ~poll_is_none(sv.gateway)
  /\ sv' = IF ~poll_is_none(sv.comfy)
           THEN [sv EXCEPT !.pc = "returned", !.status = sv.comfy.code,
                           !.gateway = terminate_if_running(@)]
           ELSE [sv EXCEPT !.pc = "returned", !.status = sv.gateway.code,
                           !.comfy = terminate_if_running(@)]
  /\ UNCHANGED <<jobVars, fileVars, resp, vpVars, notSv>>

\* a child process ends: by itself with one of ExitCodes, or on the SIGTERM
\* that terminate() sent
ChildExit(which, code) ==
  /\ which = "comfy" =>
       /\ poll_is_none(sv.comfy)
       /\ sv' = [sv EXCEPT !.comfy = [st |-> "exited",
                                       code |-> IF sv.comfy.st = "terminating" THEN SigtermCode ELSE code]]
  /\ which = "gateway" =>
       /\ poll_is_none(sv.gateway)
       /\ sv' = [sv EXCEPT !.gateway = [st |-> "exited",
                                         code |-> IF sv.gateway.st = "terminating" THEN SigtermCode ELSE code]]
  /\ UNCHANGED <<jobVars, fileVars, resp, vpVars, notSv>>

\* shutdown(_sig, _frame) with gateway_process bound to a process: both
\* children that are still running are terminated.
shutdown(s) == [s EXCEPT !.gateway = terminate_if_running(@), !.comfy = terminate_if_running(@)]

\* SIGINT or SIGTERM is delivered to the supervisor process.
\*  - before signal.signal(...) the default disposition applies: SIGTERM ends
\*    the process, SIGINT raises KeyboardInterrupt, which only
\*    _run_artifact_failure_endpoint catches (return 0);
\*  - while gateway_process is None, shutdown evaluates None.poll() and raises
\*    AttributeError; inside the try block "except Exception" terminates the
\*    engine and re-raises, after it nothing is terminated;
\*  - afterwards shutdown terminates both children.
SupSignal(sig) ==
  /\ sv.signals < MaxSignals
  /\ sv.pc \notin {"idle", "returned", "raised", "killed"}
  /\ sv' =
       CASE sv.pc \in {"start", "resolved", "engine_started"} ->
              [sv EXCEPT !.signals = @ + 1, !.pc = "killed"]
         [] sv.pc = "degraded" ->
              IF sig = "SIGINT"
              THEN [sv EXCEPT !.signals = @ + 1, !.pc = "returned", !.status = 0]
              ELSE [sv EXCEPT !.signals = @ + 1, !.pc = "killed"]
         [] sv.pc \in {"waiting", "preflight"} ->
              [sv EXCEPT !.signals = @ + 1, !.handler_failed = TRUE, !.pc = "raised",
                         !.comfy = terminate_if_running(@)]
         [] sv.pc = "launch" ->
              [sv EXCEPT !.signals = @ + 1, !.handler_failed = TRUE, !.pc = "raised"]
         [] OTHER -> [shutdown(sv) EXCEPT !.signals = @ + 1]
  /\ UNCHANGED <<jobVars, fileVars, resp, vpVars, notSv>>

InitSupervisor ==
  /\ InitJobs /\ InitFiles /\ InitVp
  /\ rd = IdleReader /\ walk = IdleWalk /\ rt = IdleRoundTrip /\ mp = IdleMapper /\ oc = IdleResolve
  /\ cc = IdleClient /\ mr = IdleRoots /\ dl = IdleDownload
  /\ \E config_ok \in BOOLEAN, specs \in SpecLists, payload \in PreflightPayloads :
       sv = [IdleSupervisor EXCEPT !.pc = "start", !.config_ok = config_ok, !.specs = specs,
                                   !.payload = payload]

NextSupervisor ==
  \/ SupResolve
  \/ \E route \in DegradedRoutes, key \in Keys : DegradedRequest(route, key)
  \/ SupStartEngine
  \/ SupInstallHandlers
  \/ \E outcome \in {"200", "timeout"} : SupProbe(outcome)
  \/ \E outcome \in {"prompt_id", "ComfyClientError"} : SupPreflight(outcome)
  \/ SupStartGateway
  \/ SupLoop
  \/ \E which \in {"comfy", "gateway"}, code \in ExitCodes : ChildExit(which, code)
  \/ \E sig \in {"SIGINT", "SIGTERM"} : SupSignal(sig)

SpecSupervisor == InitSupervisor /\ [][NextSupervisor]_vars

\* ---------------------------------------------------- _move_dir_contents
\* an entry whose name the target already has stays in the source
move_dir_contents(source_files, target_files) ==
  [n \in ModelFileNames |->
     IF target_files[n] # NoFile THEN target_files[n] ELSE source_files[n]]

\* the directories before the call
RootStates ==
  {[kind |-> k, files |-> EmptyDir] : k \in PathKinds}
  \cup {[kind |-> "dir", files |-> f] : f \in [ModelFileNames -> ModelFileContents]}
CacheStates == [ModelFileNames -> {NoFile} \cup ModelFileContents]

SubdirSet == {ModelSubdirs[i] : i \in 1..Len(ModelSubdirs)}

InitRoots ==
  /\ InitJobs /\ InitFiles /\ InitVp
  /\ rd = IdleReader /\ walk = IdleWalk /\ rt = IdleRoundTrip /\ mp = IdleMapper
  /\ oc = IdleResolve /\ sv = IdleSupervisor /\ cc = IdleClient /\ dl = IdleDownload
  /\ \E comfy \in [SubdirSet -> RootStates], cache \in [SubdirSet -> CacheStates] :
       mr = [IdleRoots EXCEPT !.comfy = comfy, !.cache = cache, !.comfy0 = comfy]

\* _ensure_model_roots_on_cache is called (run_bootstrap calls it at every start)
EnsureCall ==
  /\ mr.pc \in {"idle", "done"}
  /\ mr.run < 2
  /\ mr' = [mr EXCEPT !.pc = "loop", !.i = 1, !.run = @ + 1,
                      !.first = IF mr.pc = "done" THEN <<[comfy |-> mr.comfy, cache |-> mr.cache]>>
                                ELSE @]
  /\ UNCHANGED <<jobVars, fileVars, resp, vpVars, notMr>>

Symlinked == [kind |-> "symlink_cache", files |-> EmptyDir]

\* one iteration of "for model_subdir in sorted(MODEL_SUBDIRS)", or the return
EnsureSubdir ==
  /\ mr.pc = "loop"
  /\ IF mr.i > Len(ModelSubdirs)
     THEN mr' = [mr EXCEPT !.pc = "done"]
     ELSE LET d == ModelSubdirs[mr.i]
              comfy_dir == mr.comfy[d]
          IN  mr' =
                CASE comfy_dir.kind = "symlink_cache" -> [mr EXCEPT !.i = @ + 1]
                  [] comfy_dir.kind = "symlink_other" ->
                       [mr EXCEPT !.i = @ + 1, !.comfy[d] = Symlinked]
                  [] comfy_dir.kind = "dir" ->
                       [mr EXCEPT !.i = @ + 1, !.comfy[d] = Symlinked,
                                  !.cache[d] = move_dir_contents(comfy_dir.files, @)]
                  [] comfy_dir.kind = "file" -> [mr EXCEPT !.pc = "raised"]
                  [] OTHER -> [mr EXCEPT !.i = @ + 1, !.comfy[d] = Symlinked]
  /\ UNCHANGED <<jobVars, fileVars, resp, vpVars, notMr>>

NextRoots == EnsureCall \/ EnsureSubdir

SpecRoots == InitRoots /\ [][NextRoots]_vars

\* ---------------------------------------------------------- _download_file
\* deploy/bootstrap.py. The body at the url is a sequence of chunks; the file
\* system holds the target path and the path the chunks are written to.
MaxChunks == 3
MaxDownloads == 2
SourceBodies == {[i \in 1..n |-> i] : n \in 0..MaxChunks}
Prefixes(body) == {SubSeq(body, 1, n) : n \in 0..Len(body)}

\* the path _download_file writes the chunks to
tmp_path_is_target == "target"
tmp_path == "part"

\* a .part file of an earlier, failed start may be there
InitDownload ==
  /\ InitJobs /\ InitFiles /\ InitVp
  /\ rd = IdleReader /\ walk = IdleWalk /\ rt = IdleRoundTrip /\ mp = IdleMapper
  /\ oc = IdleResolve /\ sv = IdleSupervisor /\ cc = IdleClient /\ mr = IdleRoots
  /\ \E source \in SourceBodies :
       \E part \in {NoPath} \cup {[exists |-> TRUE, data |-> d] : d \in Prefixes(source)} :
         dl = [IdleDownload EXCEPT !.source = source, !.fs["part"] = part]

\* the resolver reaches the spec: "if target_path.exists(): continue", else
\* _download_file is entered
DownloadCall ==
  /\ dl.pc \in {"idle", "raised", "killed", "done"}
  /\ dl.calls < MaxDownloads
  /\ dl' = [dl EXCEPT !.calls = @ + 1,
                      !.pc = IF dl.fs["target"].exists THEN "skipped" ELSE "urlopen"]
  /\ UNCHANGED <<jobVars, fileVars, resp, vpVars, notDl>>

\* urllib.request.urlopen(request, timeout=600)
DownloadUrlopen(outcome) ==
  /\ dl.pc = "urlopen"
  /\ dl' = [dl EXCEPT !.pc = IF outcome = "response" THEN "open" ELSE "raised"]
  /\ UNCHANGED <<jobVars, fileVars, resp, vpVars, notDl>>

\* tmp_path.open("wb") creates or truncates the file
DownloadOpen ==
  /\ dl.pc = "open"
  /\ dl' = [dl EXCEPT !.pc = "read", !.fs[tmp_path] = EmptyFile]
  /\ UNCHANGED <<jobVars, fileVars, resp, vpVars, notDl>>

\* one turn of the loop: response.read, then out.write or break; an empty
\* read is taken as the end of the body, as the code takes it
DownloadChunk(outcome) ==
  /\ dl.pc = "read"
  /\ LET written == Len(dl.fs[tmp_path].data) IN
       dl' = CASE outcome = "raised" -> [dl EXCEPT !.pc = "raised"]
               [] written < Len(dl.source) ->
                    [dl EXCEPT !.fs[tmp_path].data = Append(@, dl.source[written + 1])]
               [] OTHER -> [dl EXCEPT !.pc = "replace"]
  /\ UNCHANGED <<jobVars, fileVars, resp, vpVars, notDl>>

\* tmp_path.replace(target_path): one rename
DownloadReplace ==
  /\ dl.pc = "replace"
  /\ dl' = [dl EXCEPT !.pc = "done",
                      !.fs = IF tmp_path = "target" THEN @
                             ELSE [@ EXCEPT !["target"] = dl.fs[tmp_path], ![tmp_path] = NoPath]]
  /\ UNCHANGED <<jobVars, fileVars, resp, vpVars, notDl>>

\* the process is stopped in the middle of the download
DownloadKilled ==
  /\ dl.pc \in {"urlopen", "open", "read", "replace"}
  /\ dl' = [dl EXCEPT !.pc = "killed"]
  /\ UNCHANGED <<jobVars, fileVars, resp, vpVars, notDl>>

NextDownload ==
  \/ DownloadCall
  \/ \E outcome \in {"response", "raised"} : DownloadUrlopen(outcome)
  \/ DownloadOpen
  \/ \E outcome \in {"data", "raised"} : DownloadChunk(outcome)
  \/ DownloadReplace
  \/ DownloadKilled

SpecDownload == InitDownload /\ [][NextDownload]_vars

\* ------------------------------------------------------- the engine client
\* gateway/comfy_client.py. The engine answers each path with an HTTP status
\* and a body, or not at all (URLError).
ExternalModelPaths ==
  <<"/api/externalmodel/getlist", "/manager/externalmodel/getlist", "/externalmodel/getlist">>
CustomNodeMappingPaths ==
  <<"/api/customnode/getmappings", "/manager/customnode/getmappings", "/customnode/getmappings">>

CatalogPaths(operation) ==
  IF operation = "get_external_models" THEN ExternalModelPaths ELSE CustomNodeMappingPaths

EngineAnswers ==
  {[kind |-> "http", code |-> 200, body |-> "object"],
   [kind |-> "http", code |-> 200, body |-> "array"],
   [kind |-> "http", code |-> 200, body |-> "not_json"],
   [kind |-> "http", code |-> 404, body |-> "not_json"],
   [kind |-> "http", code |-> 500, body |-> "object"],
   [kind |-> "url_error", code |-> 0, body |-> ""]}

ComfyClientError(message, status_code, path) ==
  [ok |-> FALSE, status_code |-> status_code, message |-> message, path |-> path]

\* ComfyClient._request_json: the parsed object, or ComfyClientError
request_json(path, answer) ==
  IF answer.kind = "url_error" THEN ComfyClientError("connection error", NoStatus, path)
  ELSE IF answer.code # 200 THEN ComfyClientError("HTTP error", answer.code, path)
  ELSE IF answer.body = "not_json" THEN ComfyClientError("returned invalid JSON", NoStatus, path)
  ELSE IF answer.body # "object" THEN ComfyClientError("returned non-object JSON", NoStatus, path)
  ELSE [ok |-> TRUE, status_code |-> 200, message |-> "payload", path |-> path]

\* get_external_models / get_custom_node_mappings enter
\* _request_json_with_path_fallback with their list of paths
CatalogCall(operation, answers) ==
  /\ cc.pc = "idle"
  /\ cc' = IF CatalogPaths(operation) = <<>>
           THEN [cc EXCEPT !.pc = "done",
                           !.result = ComfyClientError("No request paths provided", NoStatus, "")]
           ELSE [cc EXCEPT !.pc = "loop", !.paths = CatalogPaths(operation),
                           !.answers = answers, !.i = 1]
  /\ UNCHANGED <<jobVars, fileVars, resp, vpVars, notCc>>

\* a loop body that goes on to the next path after any error
CatalogTryAnyError ==
  /\ cc.pc = "loop"
  /\ IF cc.i > Len(cc.paths)
     THEN cc' = [cc EXCEPT !.pc = "done", !.result = cc.last_error]
     ELSE LET r == request_json(cc.paths[cc.i], cc.answers[cc.i])
          IN  cc' = IF r.ok
                    THEN [cc EXCEPT !.pc = "done", !.result = r, !.tried = Append(@, cc.paths[cc.i])]
                    ELSE [cc EXCEPT !.last_error = r, !.i = @ + 1,
                                    !.tried = Append(@, cc.paths[cc.i])]
  /\ UNCHANGED <<jobVars, fileVars, resp, vpVars, notCc>>

\* one iteration of "for path in paths", or the raise after the loop
CatalogTry ==
  /\ cc.pc = "loop"
  /\ IF cc.i > Len(cc.paths)
     THEN cc' = [cc EXCEPT !.pc = "done", !.result = cc.last_error]
     ELSE LET r == request_json(cc.paths[cc.i], cc.answers[cc.i])
          IN  cc' = IF r.ok \/ r.status_code # 404
                    THEN [cc EXCEPT !.pc = "done", !.result = r, !.tried = Append(@, cc.paths[cc.i]),
                                    !.last_error = IF r.ok THEN @ ELSE r]
                    ELSE [cc EXCEPT !.last_error = r, !.i = @ + 1,
                                    !.tried = Append(@, cc.paths[cc.i])]
  /\ UNCHANGED <<jobVars, fileVars, resp, vpVars, notCc>>

NextClient ==
  \/ \E operation \in {"get_external_models", "get_custom_node_mappings"} :
       \E answers \in [1..Len(CatalogPaths(operation)) -> EngineAnswers] :
         CatalogCall(operation, answers)
  \/ CatalogTry

SpecClient == Init /\ [][NextClient]_vars

\* the first path the engine does not answer with a 404, 0 if there is none
FirstNot404 ==
  LET hits == {i \in 1..Len(cc.paths) :
                 ~(cc.answers[i].kind = "http" /\ cc.answers[i].code = 404)}
  IN  IF hits = {} THEN 0 ELSE CHOOSE i \in hits : \A k \in hits : i <= k

\* C30: a finished catalog call has requested the paths of its list in order
\* up to the first one not answered with a 404 and no further; its outcome is
\* what that path gave (the payload, or the error raised), and when every
\* path answered 404 its outcome is the 404 error of the last path.
C30_FirstNon404Wins ==
  cc.pc = "done" =>
    IF FirstNot404 = 0
    THEN /\ cc.tried = cc.paths
         /\ cc.result = ComfyClientError("HTTP error", 404, cc.paths[Len(cc.paths)])
    ELSE /\ cc.tried = SubSeq(cc.paths, 1, FirstNot404)
         /\ cc.result = request_json(cc.paths[FirstNot404], cc.answers[FirstNot404])
         /\ cc.result.path = cc.paths[FirstNot404]

C30_Witness ==
  /\ cc.pc = "done" /\ Len(cc.tried) = 2
  /\ cc.answers[2].code = 500 /\ cc.result.status_code = 500 /\ ~cc.result.ok

\* the requirements of the run's preflight graph that no declared model spec matches
UndeclaredRequirements ==
  LET model_specs == SelectSeq(sv.specs, LAMBDA item : item.kind # "custom_node")
  IN  SelectSeq(known_model_requirements_from_prompt(sv.payload),
                LAMBDA r : selected_spec(r, model_specs) = 0)

\* C25: whatever list of ArtifactSpecs is declared (the empty list included),
\* once the resolver has returned, every model file that the preflight graph
\* references in a known model slot and that no declared model spec matches
\* is in unresolved_models of an artifact_resolver_failed payload with reason
\* required_model_not_declared_in_app_artifacts, and the degraded endpoint is
\* served.
C25_UndeclaredModelDegrades ==
  (sv.config_ok /\ sv.log # <<>>) =>
    \A i \in 1..Len(UndeclaredRequirements) :
      /\ sv.resolver.error
      /\ sv.resolver.status = "artifact_resolver_failed"
      /\ \E k \in 1..Len(sv.resolver.unresolved_models) :
           sv.resolver.unresolved_models[k]
             = Unresolved(UndeclaredRequirements[i].filename,
                          "required_model_not_declared_in_app_artifacts")
      /\ sv.degraded

\* the positions of an event in the supervisor's log
LogAt(event) == {i \in 1..Len(sv.log) : sv.log[i] = event}

\* C26: the gateway and the degraded endpoint exclude each other in one
\* supervisor run: after the resolver returned an error payload the degraded
\* endpoint is the one served and neither the engine nor the gateway was ever
\* started; after it returned no error the degraded endpoint is never served.
C26_GatewayXorDegraded ==
  sv.log # <<>> =>
    /\ sv.resolver.error =>
         /\ sv.degraded /\ LogAt("degraded_served") # {}
         /\ sv.comfy = NoChild /\ sv.gateway = NoChild
         /\ LogAt("engine_started") = {} /\ LogAt("gateway_started") = {}
    /\ ~sv.resolver.error =>
         /\ ~sv.degraded /\ LogAt("degraded_served") = {}
         /\ sv.answer.route = ""

C26_Witness ==
  /\ sv.resolver.error
  /\ sv.answer = [route |-> "POST /run", status |-> 503, body |-> "error_payload"]

\* C27: the gateway subprocess exists only after, in this order, the
\* resolver returned no error, the readiness probe answered 200 and the
\* preflight submission returned a prompt id.
C27_GatewayAfterResolveReadyPreflight ==
  sv.gateway # NoChild =>
    /\ ~sv.resolver.error
    /\ \E i \in LogAt("resolved"), j \in LogAt("ready"), k \in LogAt("preflight_ok"),
          l \in LogAt("gateway_started") : i < j /\ j < k /\ k < l

C27_Witness == sv.gateway.st = "running" /\ sv.comfy.st = "running"

\* C28: with both children started, the supervisor returns only when a child
\* has exited, with the exit status of an exited child, and leaves no child
\* running un-terminated; as soon as a child has exited the return is the
\* step its loop takes.
C28_ReturnsWithFirstExit ==
  /\ [](sv.pc = "running" /\ (sv.comfy.st = "exited" \/ sv.gateway.st = "exited")
         => ENABLED SupLoop)
  /\ [][(sv.pc = "running" /\ sv'.pc = "returned") =>
          /\ \E child \in {sv.comfy, sv.gateway} :
               child.st = "exited" /\ sv'.status = child.code
          /\ sv'.comfy.st # "running" /\ sv'.gateway.st # "running"]_vars

C28_Witness ==
  /\ sv.pc = "returned" /\ sv.status = 1
  /\ sv.gateway = [st |-> "exited", code |-> 1] /\ sv.comfy.st = "terminating"

\* C29: a SIGINT or SIGTERM delivered once the engine subprocess has been
\* started leaves no child running un-terminated, and the handler does not
\* fail.
C29_SignalTerminatesChildren ==
  [][(sv'.signals = sv.signals + 1 /\ sv.comfy # NoChild) =>
       /\ ~sv'.handler_failed
       /\ sv'.comfy.st # "running" /\ sv'.gateway.st # "running"]_vars

\* C11: a reader that obtained a FileRecord (get_file, list_files, download),
\* whatever create_file calls run beside it, finds the blob on disk and reads
\* the complete content: the recorded size and digest.
C11_ReaderFindsCompleteBlob ==
  rd.rec # None =>
    /\ rd.pc # "not_found"
    /\ blobs[rd.rec[1].file_id] # NoBlob
    /\ rd.pc = "read" =>
         /\ Len(rd.data) = rd.rec[1].size_bytes
         /\ sha256(rd.data) = rd.rec[1].sha256_hex

C11_Witness ==
  /\ rd.pc = "read"
  /\ rd.rec # None
  /\ \E c \in FileIds :
       /\ upl[c].pc = "write"
       /\ blobs[c] \notin {NoBlob, upl[c].content}

\* ------------------------------------------------- list_files walks (claims)
RECURSIVE Concat(_)
Concat(pages) == IF pages = <<>> THEN <<>> ELSE Head(pages) \o Concat(Tail(pages))

WalkIds == Concat(walk.pages)

StrictlyDescending(ids) == \A k \in 1..(Len(ids) - 1) : ids[k] > ids[k + 1]

Occurrences(ids, id) == Cardinality({k \in 1..Len(ids) : ids[k] = id})

\* the rows the walk's filters select
WalkMatches(row) ==
  /\ walk.media_type # "" => row.media_type = walk.media_type
  /\ walk.source # "" => row.source = walk.source
  /\ walk.app_id # "" => row.app_id = walk.app_id

WalkMatchingIds == {files[i].id : i \in {k \in 1..Len(files) : WalkMatches(files[k])}}

\* C12: with no insert during the walk, a cursor-based walk of list_files ends
\* (every page that has a successor is non-empty and the ids go strictly down,
\* so there are at most as many pages as matching rows) and, once next_cursor
\* is absent, has yielded every matching file exactly once, in strictly
\* descending cursor_id order within and across pages.
C12_WalkYieldsAllOnce ==
  walk.inserted = {} =>
    /\ StrictlyDescending(WalkIds)
    /\ \A p \in 1..(Len(walk.pages) - 1) : walk.pages[p] # <<>>
    /\ Len(walk.pages) <= Cardinality(walk.start) + 1
    /\ walk.pc = "done" =>
         /\ {WalkIds[k] : k \in 1..Len(WalkIds)} = WalkMatchingIds
         /\ \A id \in WalkMatchingIds : Occurrences(WalkIds, id) = 1

C12_Witness ==
  /\ walk.pc = "done"
  /\ walk.inserted = {}
  /\ Len(walk.pages) >= 2
  /\ Len(WalkIds) >= 2
  /\ Len(WalkIds) < Len(files)

\* C13: when files are inserted during a walk, every matching file that existed
\* when the walk started is still returned exactly once, and a file inserted
\* during the walk never shows on the second or a later page.
C13_WalkUnderInserts ==
  /\ \A p \in 2..Len(walk.pages) :
       \A k \in 1..Len(walk.pages[p]) : walk.pages[p][k] \notin walk.inserted
  /\ \A id \in walk.start : Occurrences(WalkIds, id) <= 1
  /\ walk.pc = "done" => \A id \in walk.start : Occurrences(WalkIds, id) = 1

C13_Witness ==
  /\ walk.pc = "done"
  /\ Len(walk.pages) >= 2
  /\ \E id \in walk.inserted : \E i \in 1..Len(files) : files[i].id = id /\ WalkMatches(files[i])

\* C14: a list_files call returns at most clamp(limit, 1, 200) records, and a
\* next_cursor, equal to the smallest cursor_id of the page, exactly when a
\* further matching row below the page exists.
C14_PageSizeAndCursor ==
  [][walk'.pages # walk.pages =>
       LET page == walk'.pages[Len(walk'.pages)]
           clamp == IF walk'.limit < 1 THEN 1
                    ELSE IF walk'.limit > 200 THEN 200 ELSE walk'.limit
           selected == {files[i].id : i \in {k \in 1..Len(files) :
                          /\ WalkMatches(files[k])'
                          /\ walk'.sent # None => files[k].id < walk'.sent[1]}}
           below == {id \in selected : \A k \in 1..Len(page) : id < page[k]}
       IN  /\ Len(page) <= clamp
           /\ walk'.next_cursor # None <=> (page # <<>> /\ below # {})
           /\ walk'.next_cursor # None =>
                 \A k \in 1..Len(page) : walk'.next_cursor[1] <= page[k]
           /\ walk'.next_cursor # None =>
                 \E k \in 1..Len(page) : walk'.next_cursor[1] = page[k]
    ]_vars

C14_Witness ==
  /\ Len(files) > 200
  /\ walk.limit > 200
  /\ Len(walk.pages) = 1
  /\ Len(walk.pages[1]) = 200
  /\ walk.next_cursor = Some(2)

PlainName(name) == name \in OutputNames
ParsesAsJson(text) == \E value \in JsonValues : value.v = text

MapTemplate == parse_prompt_template(mp.workflow).prompt
MappedSlots(node_id) == mp.result.prompt[node_id].inputs.slots

\* the slot the claims name: the field's name if that key exists, else "value"
\* if it exists, else the node's only key; a node with none of these gets a
\* new slot under the field's name.
ClaimedSlot(slots, name) ==
  IF name \in DOMAIN slots THEN name
  ELSE IF "value" \in DOMAIN slots THEN "value"
  ELSE IF \E k \in DOMAIN slots : DOMAIN slots = {k} THEN CHOOSE k \in DOMAIN slots : TRUE
  ELSE name

SlotOfInput(i) == ClaimedSlot(MapTemplate[mp.inputs[i].node_id].inputs.slots, mp.inputs[i].name)

AloneOnNode(i) == \A k \in DOMAIN mp.inputs : k # i => mp.inputs[k].node_id # mp.inputs[i].node_id

CeSlots == {"ce_job_id", "ce_artifacts_dir", "ce_state_db"}

\* C16 (as claimed): for each contract input present in the payload the mapped
\* graph holds the payload value in the slot chosen by the preference order.
C16_BoundSlotReadsBack ==
  (mp.pc = "mapped" /\ ~mp.preflight /\ mp.result.ok) =>
    \A i \in DOMAIN mp.inputs :
      mp.inputs[i].name \in DOMAIN mp.payload =>
        /\ SlotOfInput(i) \in DOMAIN MappedSlots(mp.inputs[i].node_id)
        /\ MappedSlots(mp.inputs[i].node_id)[SlotOfInput(i)] = mp.payload[mp.inputs[i].name]

\* C16 (amended): the same for each contract input that is the only one bound
\* to its node and whose slot is none of the ce_ slots of an ApiOutput node.
C16_BoundSlotReadsBackAlone ==
  (mp.pc = "mapped" /\ ~mp.preflight /\ mp.result.ok) =>
    \A i \in DOMAIN mp.inputs :
      (/\ mp.inputs[i].name \in DOMAIN mp.payload
       /\ AloneOnNode(i)
       /\ SlotOfInput(i) \notin CeSlots) =>
        /\ SlotOfInput(i) \in DOMAIN MappedSlots(mp.inputs[i].node_id)
        /\ MappedSlots(mp.inputs[i].node_id)[SlotOfInput(i)] = mp.payload[mp.inputs[i].name]

C16_Witness ==
  /\ mp.pc = "mapped" /\ ~mp.preflight /\ mp.result.ok
  /\ Len(mp.inputs) = 2
  /\ mp.inputs[2].node_id = "2"
  /\ DOMAIN mp.payload = {"prompt", "seed"}
  /\ SlotOfInput(1) = "text"
  /\ MappedSlots("2")["value"] = IntVal("7")

\* the defaults the claim lists; 0 and 0.0 are the same number, a media type
\* has no listed default
ClaimedDefaults(type) ==
  IF type = "string" THEN {StrVal("")}
  ELSE IF type = "integer" THEN {IntVal("0")}
  ELSE IF type = "number" THEN {IntVal("0"), FloatVal("0.0")}
  ELSE IF type = "boolean" THEN {BoolVal("false")}
  ELSE IF type = "object" THEN {[t |-> "object", v |-> "{}"]}
  ELSE IF type = "array" THEN {[t |-> "array", v |-> "[]"]}
  ELSE {StrVal("")}

\* C17: the preflight payload holds, in the slot of every contract input, the
\* default of its declared type, and every other slot of every node is as in
\* the workflow template (inputs sharing a node and the ce_ annotations of
\* ApiOutput nodes set aside).
C17_PreflightDefaults ==
  (mp.pc = "mapped" /\ mp.preflight /\ mp.result.ok
     /\ \A i \in DOMAIN mp.inputs : AloneOnNode(i) /\ SlotOfInput(i) \notin CeSlots) =>
    /\ \A i \in DOMAIN mp.inputs :
         /\ SlotOfInput(i) \in DOMAIN MappedSlots(mp.inputs[i].node_id)
         /\ MappedSlots(mp.inputs[i].node_id)[SlotOfInput(i)] \in ClaimedDefaults(mp.inputs[i].type)
    /\ \A id \in DOMAIN MapTemplate :
         \A key \in DOMAIN MappedSlots(id) \ CeSlots :
           (\A i \in DOMAIN mp.inputs : ~(mp.inputs[i].node_id = id /\ SlotOfInput(i) = key)) =>
             /\ MapTemplate[id].inputs.is_dict
             /\ key \in DOMAIN MapTemplate[id].inputs.slots
             /\ MappedSlots(id)[key] = MapTemplate[id].inputs.slots[key]

\* C18 (as claimed): in a mapped graph every node of class ApiOutput carries
\* ce_job_id, ce_artifacts_dir and ce_state_db, ce_job_id being the job id
\* given to the mapper, "" when none was given.
C18_OutputNodesAnnotated ==
  (mp.pc = "mapped" /\ mp.result.ok) =>
    \A id \in DOMAIN mp.result.prompt :
      mp.result.prompt[id].class_type = "ApiOutput" =>
        /\ mp.result.prompt[id].inputs.is_dict
        /\ CeSlots \subseteq DOMAIN MappedSlots(id)
        /\ MappedSlots(id)["ce_job_id"] =
             IF mp.job_id = None THEN StrVal("") ELSE StrVal(mp.job_id[1])

\* C18 (amended): the same for every ApiOutput node whose "inputs" is a mapping.
C18_OutputNodesWithInputsAnnotated ==
  (mp.pc = "mapped" /\ mp.result.ok) =>
    \A id \in DOMAIN mp.result.prompt :
      (mp.result.prompt[id].class_type = "ApiOutput" /\ mp.result.prompt[id].inputs.is_dict) =>
        /\ CeSlots \subseteq DOMAIN MappedSlots(id)
        /\ MappedSlots(id)["ce_job_id"] =
             IF mp.job_id = None THEN StrVal("") ELSE StrVal(mp.job_id[1])

C18_Witness ==
  /\ mp.pc = "mapped" /\ mp.result.ok
  /\ mp.job_id = Some("job-1")
  /\ mp.workflow.shape = "prompt"
  /\ mp.workflow.graph["9"].class_type = "ApiOutput"
  /\ mp.workflow.graph["9"].inputs = Dict(SlotsOver({"ce_job_id"}))
  /\ MappedSlots("9")["ce_job_id"] = StrVal("job-1")

\* ---------------------------------------------------------------- C19
\* the prefix the failure taxonomy gives each exception class
TaxonomyPrefixes == {"VALIDATION_ERROR", "QUEUE_ERROR", "OUTPUT_TYPE_ERROR",
                     "OUTPUT_TIMEOUT", "SYSTEM_ERROR"}

FailedWithPrefix(j, prefixes) ==
  /\ jobs[j].state = "failed"
  /\ jobs[j].error # None
  /\ jobs[j].error[1].prefix \in prefixes

\* C19 as stated: whatever exception the executor hits after mark_running, the
\* job ends failed; a mapping error gives VALIDATION_ERROR, an engine submission
\* error QUEUE_ERROR, and any other exception SYSTEM_ERROR.
C19_ExceptionFailsJob ==
  \A j \in JobIds :
    raised[j] # NoException =>
      /\ pc[j] = "done"
      /\ FailedWithPrefix(j, IF raised[j] = "PromptMappingError" THEN {"VALIDATION_ERROR"}
                             ELSE IF raised[j] = "ComfyClientError" THEN {"QUEUE_ERROR"}
                             ELSE {"SYSTEM_ERROR"})

\* C19 amended: whatever exception the executor hits after mark_running, the
\* job ends failed with a taxonomy prefix: a mapping error gives
\* VALIDATION_ERROR, an engine submission error QUEUE_ERROR, an output
\* resolution error keeps its own OUTPUT_TIMEOUT or OUTPUT_TYPE_ERROR prefix,
\* and any other exception gives SYSTEM_ERROR; a finished worker never leaves
\* its job running.
C19_ExceptionFailsJobTyped ==
  \A j \in JobIds :
    /\ raised[j] # NoException =>
         /\ pc[j] = "done"
         /\ FailedWithPrefix(j, TaxonomyPrefixes)
         /\ FailedWithPrefix(j, IF raised[j] = "PromptMappingError" THEN {"VALIDATION_ERROR"}
                                ELSE IF raised[j] = "ComfyClientError" THEN {"QUEUE_ERROR"}
                                ELSE IF raised[j] = "OutputResolutionError"
                                     THEN {"OUTPUT_TIMEOUT", "OUTPUT_TYPE_ERROR"}
                                ELSE {"SYSTEM_ERROR"})
    /\ pc[j] = "done" => jobs[j].state # "running"

\* a job whose engine submission raised ComfyClientError and ended failed
C19_Witness ==
  \E j \in JobIds :
    /\ raised[j] = "ComfyClientError"
    /\ hist[j] = <<"queued", "running", "failed">>
    /\ jobs[j].error = Some(Err("QUEUE_ERROR", "", <<>>))

\* ---------------------------------------------------------------- C20
MediaInputNames ==
  {ContractInputs[i].name :
     i \in {k \in 1..Len(ContractInputs) : is_media_contract_type(ContractInputs[k].type)}}

\* the payload of job j gives init_image a value that starts with fid_ and names
\* no stored file, or a file whose blob is missing
UnknownMediaRef(j) ==
  /\ "init_image" \in jobs[j].input_payload
  /\ starts_with_fid(refs[j])
  /\ get_file(files, refs[j]) = None \/ blobs[refs[j]] = NoBlob

\* C20: when the executor passes the mapping and submission step for a job
\* whose payload gives a media-typed input an fid_ value naming no stored file
\* (or one whose blob is missing), the job is failed with
\* VALIDATION_ERROR:unknown_media_file_id:<name> and its graph is not submitted
\* to the engine.
C20_UnknownMediaFileFailsJob ==
  [][\A j \in JobIds :
       (pc[j] = "submit" /\ pc'[j] # "submit" /\ UnknownMediaRef(j)) =>
         /\ jobs'[j].state = "failed"
         /\ jobs'[j].error = Some(Err("VALIDATION_ERROR", "unknown_media_file_id",
                                      <<CHOOSE n \in MediaInputNames : TRUE>>))
         /\ j \notin submitted']_vars

\* ---------------------------------------------------------------- C21
\* strings that read as a number
NumericStrings == {"12", "1.5", "1", "0"}
BooleanStrings == {"1", "true", "yes", "on", "0", "false", "no", "off"}

\* the artifact value cannot be converted to the declared scalar type
Unconvertible(type, value) ==
  \/ type \in {"integer", "number"} /\ value.t = "bool"
  \/ type \in {"integer", "number"} /\ value.t = "str" /\ value.v \notin NumericStrings
  \/ type = "boolean" /\ value.t = "str" /\ value.v \notin BooleanStrings
  \/ type = "object" /\ value.t # "object"
  \/ type = "array" /\ value.t # "array"

\* C21: a job whose artifact cannot be converted to the declared scalar type
\* of its output ends failed with an OUTPUT_TYPE_ERROR error, never completed
\* and never under another prefix.
C21_UnconvertibleFailsTypeError ==
  (oc.pc = "done" /\ Unconvertible(oc.field.type, oc.value)) =>
    /\ oc.state = "failed"
    /\ oc.error # None
    /\ oc.error[1].prefix = "OUTPUT_TYPE_ERROR"

\* ---------------------------------------------------------------- C22
\* the strings of ArtifactStrings that begin with fid_
FileIdStrings == {"fid_a"}

IsFileIdString(value) == value.t = "str" /\ value.v \in FileIdStrings

\* C22: the result of a media-typed output in a completed job is a string
\* beginning with fid_, and a media artifact holding anything else (a path, an
\* empty or a non-string value) makes the job fail instead of completing.
C22_MediaResultIsFileId ==
  (oc.pc = "done" /\ oc.field.type \in MediaTypes) =>
    /\ oc.state = "completed" => (oc.result # None /\ IsFileIdString(oc.result[1]))
    /\ ~IsFileIdString(oc.value) => oc.state = "failed"

\* ---------------------------------------------------------------- C24
\* the expected names with no file in the job's artifact directory, in
\* contract order
AbsentNames(j) == SelectSeq(expected_output_names, LAMBDA n : artdir[j][n] = Absent)

\* C24: when the executor finds the output deadline expired while some
\* artifacts are still absent, the job's error is
\* OUTPUT_TIMEOUT:missing_artifacts:<the names of the missing artifacts>.
C24_TimeoutNamesMissing ==
  [][\A j \in JobIds :
       (pc[j] = "loop" /\ pc'[j] = "done" /\ remaining[j] = 0 /\ AbsentNames(j) # <<>>) =>
         /\ jobs'[j].state = "failed"
         /\ jobs'[j].error = Some(Err("OUTPUT_TIMEOUT", "missing_artifacts", AbsentNames(j)))]_vars

\* ---------------------------------------------------------------- C23
\* C23: when the executor polls a job whose prompt the engine's history has
\* reported finished for the whole grace window while an expected artifact is
\* still absent, the job fails with MISSING_ARTIFACTS:<missing names> at that
\* poll, whatever is left of the output deadline.
C23_GraceExpiryFailsJob ==
  [][\A j \in JobIds :
       (pc[j] = "loop" /\ pc'[j] # "loop" /\ engine[j] = GraceTicks /\ AbsentNames(j) # <<>>) =>
         /\ jobs'[j].state = "failed"
         /\ jobs'[j].error = Some(Err("MISSING_ARTIFACTS", "", AbsentNames(j)))]_vars


\* some executor thread is between mark_running and its job's terminal state
SomeJobExecuting == \E j \in JobIds : pc[j] \in {"submit", "loop", "sleep"}

C32_NonObjectBodyRejected ==
  /\ []((resp.route = "POST /run" /\ resp.authorized /\ resp.body.kind \in NonObjectKinds) =>
          resp.status = 400 /\ resp.error = "VALIDATION_ERROR")
  /\ [][(resp' # resp /\ resp'.route = "POST /run" /\ resp'.body.kind \in NonObjectKinds) =>
          \A j \in JobIds : jobs'[j] = jobs[j]]_vars


\* C33: a GET /jobs/<id> answered for a completed job carries as output
\* exactly what the executor stored at completion, with one result entry per
\* contract output name.
C33_GetReturnsStoredResult ==
  (resp.route = "GET /jobs/<id>" /\ resp.status = 200 /\ resp.detail = "completed") =>
    /\ resp.output = jobs[resp.id].output_payload
    /\ resp.output # None
    /\ DOMAIN resp.output[1].result = OutputNames


\* C34: map_contract_payload_to_prompt leaves the loaded workflow template as
\* it was, for each workflow shape; and the graph mapped for a job is the
\* graph the loaded template, the contract and the job's own payload and id
\* give, whatever was mapped before (a job or the preflight run).
C34_TemplateNotMutated ==
  mp.pc \in {"mapped", "mapped_again"} =>
    /\ mp.template = mp.workflow
    /\ mp.pc = "mapped_again" =>
         mp.result = map_contract_payload_to_prompt(mp.workflow, mp.inputs, mp.payload, mp.job_id)


\* C35: under concurrent create_file calls the cursor_id of the FileRecord a
\* call returns is the id of the row this call inserted (what get_file and
\* list_files report for its file_id), and ids increase strictly in insertion
\* order.
C35_ReturnedCursorIsOwnRow ==
  /\ \A c \in FileIds :
       upl[c].pc = "done" =>
         /\ get_file(files, c) # None
         /\ upl[c].row_id = get_file(files, c)[1].id
  /\ \A i \in 1..(Len(files) - 1) : files[i].id < files[i + 1].id


\* C36: when the readiness poll times out or the preflight submission fails,
\* run_bootstrap raises, the engine subprocess is not left running, and the
\* gateway subprocess is never started.
C36_StartupFailureStopsEngine ==
  /\ [](sv.pc = "raised" => sv.gateway = NoChild /\ LogAt("gateway_started") = {})
  /\ [][(sv.pc \in {"waiting", "preflight"} /\ sv'.pc # sv.pc /\ sv'.signals = sv.signals
          /\ sv'.pc # "preflight" /\ sv'.pc # "launch") =>
          /\ sv'.pc = "raised"
          /\ sv'.comfy.st # "running"
          /\ sv.comfy.st = "running" => sv'.comfy.st = "terminating"]_vars

C36_Witness ==
  /\ sv.pc = "raised" /\ sv.signals = 0 /\ sv.comfy.st = "terminating"
  /\ LogAt("ready") # {} /\ LogAt("preflight_ok") = {}

\* C37: with at least one ArtifactSpec declared, a resolver that returned no
\* error left the target path of every declared model spec and the directory
\* of every declared custom node on disk.
C37_NoErrorMeansAllOnDisk ==
  (sv.log # <<>> /\ sv.specs # <<>> /\ ~sv.resolver.error) =>
    \A i \in 1..Len(sv.specs) :
      IF sv.specs[i].kind = "custom_node"
      THEN sv.specs[i].node_dir \in {"exists", "cloned"}
      ELSE sv.specs[i].target_path \in sv.disk

C37_Witness ==
  /\ sv.log # <<>> /\ ~sv.resolver.error /\ Len(sv.specs) = 2
  /\ \E i \in 1..Len(sv.specs) : sv.specs[i].kind = "model" /\ ~sv.specs[i].on_disk
  /\ \E i \in 1..Len(sv.specs) : sv.specs[i].node_dir = "cloned"


\* C38: when _ensure_model_roots_on_cache has returned, every model
\* subdirectory of the engine is a symlink to its cache directory, every file
\* that was in a real engine directory is in the cache directory with its
\* content (also when the cache held an entry of that name), and a second run
\* leaves everything as the first left it.
C38_RootsLinkedNothingLost ==
  mr.pc = "done" =>
    /\ \A d \in SubdirSet :
         /\ mr.comfy[d].kind = "symlink_cache"
         /\ \A n \in ModelFileNames :
              mr.comfy0[d].files[n] # NoFile => mr.cache[d][n] = mr.comfy0[d].files[n]
    /\ mr.first # <<>> => mr.first[1] = [comfy |-> mr.comfy, cache |-> mr.cache]


\* C39: in the graph map_contract_payload_to_prompt returns, every ApiInput
\* node carries a ce_state_db slot, as every ApiOutput node does.
C39_ApiInputHasStateDb ==
  (mp.pc = "mapped" /\ mp.result.ok) =>
    \A id \in DOMAIN mp.result.prompt :
      LET node == mp.result.prompt[id] IN
        (normalized_class(node.class_type) \in {"apiinput", "apioutput"} /\ node.inputs.is_dict)
          => "ce_state_db" \in DOMAIN node.inputs.slots


====
